---- MODULE Spec2Model ----
(***************************************************************************)
(* Session/turn runtime of codex-warp-server (src/server/src/main.rs).     *)
(*                                                                         *)
(* One session id is modelled.  Every HTTP request is a handler process    *)
(* (req[q]); a request that is accepted spawns the turn runner run[q]      *)
(* (run_turn_via_app_server) and its agent child child[q].  A step of a    *)
(* process is one operation on shared state: a critical section of the     *)
(* `runs` mutex, one file-system call, one publish on the event bus, one   *)
(* read from the child.  Everything between two such operations is local   *)
(* to the task and is folded into the step that follows it.                *)
(***************************************************************************)
EXTENDS Integers, Sequences, FiniteSets, TLC

\* ---------------------------------------------------------------- bounds
MaxReq == 3
MaxNotifs == 2
MaxTicks == 1
MaxStderr == 1
MaxLines == 60
MaxLive == 2
\* The capacity of the session's broadcast channel: 4096 in ensure_stream
\* (351), scaled down so that a receiver can fall behind.
BusCapacity == 2

\* ------------------------------------------------------ program constants
MetricsGateMs == 5000
TailMin == 50
TailMax == 50000
TailDefault == 4000
NativeCacheMs == 3000

Req == 1..MaxReq

VARIABLES
    req,        \* handler processes
    run,        \* turn runners (local state of run_turn_via_app_server)
    child,      \* agent child process of each runner
    runs,       \* AppState.runs[session_id]
    dir,        \* the session directory exists
    gen,        \* incarnation of the session directory (files of an older one are unlinked)
    meta,       \* meta.json
    events,     \* events.jsonl (current incarnation)
    stderr_log, \* stderr.log
    conclusion, \* conclusion.md
    usage,      \* usage.jsonl
    bus,        \* every message published on the session's broadcast channel
    now,        \* wall clock, ms
    archive,    \* the native archive: the rollout files of the id and its title
    native_cache, \* AppState.native_cache: when it was built and the rollout paths of the id
    view,       \* the query side: the last listing and the SSE connection
    budget,     \* what the environment may still do (scenario chosen by Init)
    hist        \* history: per runner what it received/appended/sent and how its
                \* reading ended, signals per child

vars == <<req, run, child, runs, dir, gen, meta, events, stderr_log, conclusion,
          usage, bus, now, archive, native_cache, view, budget, hist>>

\* ------------------------------------------------------------ data model
NoMeta == [status |-> "none", thread |-> "", title |-> "", ctx |-> <<>>, created_at |-> 0,
           last_used_at |-> 0, cwd |-> ""]
NoHandle == [owner |-> 0, cancel |-> FALSE, pid |-> 0]
NoConclusion == [kind |-> "none", text |-> <<>>]
NoMsg == [m |-> "", w |-> 0, t |-> 0, st |-> "", item |-> "", text |-> ""]
NoReq == [kind |-> "none", pc |-> "idle", snap |-> NoMeta, ts |-> 0, tx |-> 0, pid |-> 0,
          rdrop |-> FALSE, warp_exists |-> FALSE, code |-> 0]
NoRun == [pc |-> "none", phase |-> "", rx |-> "open", thread_id |-> "", eff |-> "",
          turn_id |-> "", next_id |-> 1, fd |-> 0, cancelled |-> FALSE,
          success |-> FALSE, exit_code |-> 1, snapshot |-> <<>>,
          last_metrics_emit_ms |-> 0, last_metrics_emitted_pct |-> -1,
          agent_item_id |-> "", agent_text |-> <<>>, msg |-> NoMsg, msg_ts |-> 0,
          msnap |-> NoMeta, mnow |-> 0, stderr_fd |-> -1, stderr_pend |-> 0]

\* persist_and_emit_stdout filtering one method less.
SUPPRESSED_but_usage == {"account/rateLimits/updated", "item/reasoning/summaryPartAdded"}

\* 1930-1932: the methods persist_and_emit_stdout drops.
SUPPRESSED == {"thread/tokenUsage/updated", "account/rateLimits/updated",
               "item/reasoning/summaryPartAdded"}

Notif(m) == [NoMsg EXCEPT !.m = m]

\* The statuses of a completed turn.
Ends == {"completed", "interrupted", "failed"}

\* Notifications the child can send (lines carrying a method field): w is the
\* modelContextWindow and t the totalTokens of a token-usage update, st the
\* status of turn/completed, item and text the item id and text of an agent
\* message delta.
Notifs ==
    {[Notif("item/agentMessage/delta") EXCEPT !.item = "m1", !.text = "a"],
     Notif("account/rateLimits/updated"),
     Notif("item/reasoning/summaryPartAdded")}
    \cup {[Notif("thread/tokenUsage/updated") EXCEPT !.w = w, !.t = t] :
             w \in {0, 1000}, t \in {100, 400}}
    \cup {[Notif("turn/completed") EXCEPT !.st = st] :
             st \in Ends}

\* The text of an item that has none.
NoText == "<none>"

\* The notifications of a turn that streams agent messages: deltas of two
\* items, a blank delta, a delta without an itemId, completed items that are an
\* agent message with id and text, without id, without text, or something else;
\* st is the type of a completed item.
AgentNotifs ==
    {[Notif("item/agentMessage/delta") EXCEPT !.item = i[1], !.text = i[2]] :
        i \in {<<"m1", "a">>, <<"m2", "b">>, <<"m1", " ">>, <<"", "c">>}}
    \cup {[Notif("item/completed") EXCEPT !.st = i[1], !.item = i[2], !.text = i[3]] :
              i \in {<<"agentMessage", "m1", "T">>, <<"agentMessage", "", "U">>,
                     <<"agentMessage", "m2", NoText>>, <<"reasoning", "m1", "x">>}}
    \cup {[Notif("turn/completed") EXCEPT !.st = "completed"]}

\* The token-usage updates of every small window and token count, and those
\* of the window 1000.
MaxWindow == 4
MaxTotal == 5

UsageNotifs ==
    {[Notif("thread/tokenUsage/updated") EXCEPT !.w = w, !.t = t] :
        w \in 0..MaxWindow \cup {1000}, t \in 0..MaxTotal \cup {400}}

\* What the child writes in a behaviour, by budget.items.
ChildNotifs(items) ==
    CASE items = "agent" -> AgentNotifs
      [] items = "usage" -> UsageNotifs
      [] OTHER -> Notifs

ThreadIds == {"t1", "t2"}

Min(a, b) == IF a < b THEN a ELSE b
Max(a, b) == IF a > b THEN a ELSE b

\* A rollout file of the native archive: its mtime, the cwd, originator and
\* source of its session_meta line, the last user prompt in its tail ("" for
\* none) and its lines, each reduced to its timestamp (-1: no timestamp that
\* parse_rfc3339_ms accepts).
Rollout(mtime, cwd, originator, source, last_prompt, lines) ==
    [mtime |-> mtime, cwd |-> cwd, originator |-> originator, source |-> source,
     last_prompt |-> last_prompt, lines |-> lines]

\* rollouts_by_session[id], sorted by file name, and the id's entry of the
\* thread titles ("" for none).
\* The id of the one session of the model; "other" is another thread of the
\* agent home.
SessionId == "sid"

NoArchive == [paths |-> <<>>, title |-> "", order |-> <<"other">>]

ShownArchive == [paths |-> <<Rollout(1, "/n", "codex_cli", "cli", "p", <<>>)>>, title |-> "",
                 order |-> <<"other">>]

\* A thread of the archive written by `codex exec`.
ExecArchive == [paths |-> <<Rollout(1, "/n", "codex_exec", "exec", "p", <<>>)>>, title |-> "",
                order |-> <<"other">>]

\* 159-163 NativeCache: when the archive was last scanned (0: never) and the
\* rollout paths found for the id then. A path is the file it named.
NoCache == [built_at_ms |-> 0, paths |-> <<>>]

\* What reading a path that has been removed gives: no mtime (0), no
\* session_meta fields, no prompt, no lines.
MissingRollout == Rollout(0, "", "", "", "", <<>>)

\* 534-575 ensure_native_cache: the archive is scanned again unless the last
\* scan is less than 3 s old; the cache after the call at time t.
ensure_native_cache(c, a, t) ==
    IF c.built_at_ms > 0 /\ c.built_at_ms + NativeCacheMs > t THEN c
    ELSE [built_at_ms |-> t, paths |-> a.paths]

\* What a handler that went through cache c finds: the files behind the cached
\* paths as they are on disk now, and the thread titles, which are not cached
\* (load_codex_thread_titles, 736-763, reads them on every call).
NativeSeen(c, a) ==
    [paths |-> [i \in 1..Len(c.paths) |->
                   IF \E j \in 1..Len(a.paths) : a.paths[j] = c.paths[i]
                   THEN c.paths[i] ELSE MissingRollout],
     title |-> a.title]

\* An SSE connection: the tail parameter (-1 for none), the backlog computed
\* when it was opened, the next backlog item to yield, how much of the bus the
\* receiver has consumed, and what the client has been sent.
NoConn == [pc |-> "idle", tail |-> -1, code |-> 0, backlog |-> <<>>, next |-> 1, rx |-> 0,
           out |-> <<>>]

NoView == [list |-> [pc |-> "idle", entry |-> NoMeta], conn |-> NoConn]

\* 765-780 should_show_rollout_user_text, on the texts of the model.
should_show_rollout_user_text(t) ==
    t \notin {"", "# AGENTS.md", "<environment_context", "<INSTRUCTIONS>"}

\* 881-913 get_or_compute_native_derived, for a fresh cache: the fields of the
\* latest rollout.
get_or_compute_native_derived(a) == a.paths[Len(a.paths)]

\* 931 and 1015-1016: the thread was written by `codex exec`.
IsExec(d) == d.source = "exec" \/ d.originator = "codex_exec"

\* 944-950 and 1029-1035: the title, "" for None.
NativeTitle(a) ==
    LET d == get_or_compute_native_derived(a)
    IN IF a.title # "" THEN a.title
       ELSE IF should_show_rollout_user_text(d.last_prompt) THEN d.last_prompt
       ELSE ""

\* 915-967 native_session_meta and 1001-1055 of list_sessions: the native
\* session derived at time t for the id from what the handler finds, NoMeta
\* for None. The mtime of a file that is gone is replaced by now_ms().
native_session_meta(a, t) ==
    IF a.paths = <<>> THEN NoMeta
    ELSE LET d == get_or_compute_native_derived(a)
             file_mtime_ms(f) == IF f.mtime > 0 THEN f.mtime ELSE t
         IN IF IsExec(d) \/ NativeTitle(a) = "" THEN NoMeta
            ELSE [NoMeta EXCEPT !.status = "done", !.thread = "sid",
                                !.title = NativeTitle(a),
                                !.created_at = file_mtime_ms(a.paths[1]),
                                !.last_used_at = file_mtime_ms(d), !.cwd = d.cwd]

\* ------------------------------------------------------------ scenarios
\* What the environment does in one behaviour: what is on disk at the
\* beginning, how many requests arrive and of which kinds (their handlers
\* overlap freely), and how much the child, the clock and the file system
\* may do.
Kinds == {"start", "continue", "stop", "delete", "touch", "rename", "list"}

\* plan: the requests that arrive, in order of arrival; store: what is on disk;
\* notifs, ticks, stderr, faults: how many unsolicited lines the child may
\* write, how often the clock may advance, how many stderr lines there are and
\* how many things may go wrong (a failing executable lookup or spawn, an error
\* or id-less response, a crash of the child); tids: the thread ids the child
\* may answer with; ends: the statuses a turn may complete with; bad: how many
\* requests may carry a blank prompt or a malformed session id; io: how many
\* appends to events.jsonl may fail; sse: how many clients open a stream; cwd:
\* the cwd field of the start and continue requests ("" for none); items:
\* "agent" if the child streams agent messages (AgentNotifs), "usage" if it
\* reports token usage (UsageNotifs), else "" (Notifs).
Scenario(plan, store, notifs, ticks, stderr, faults, tids, ends) ==
    [plan |-> plan, store |-> store, notifs |-> notifs, ticks |-> ticks,
     stderr |-> stderr, faults |-> faults, tids |-> tids, ends |-> ends,
     bad |-> 0, io |-> 0, sse |-> 0, cwd |-> "", items |-> ""]

Scenarios ==
    {Scenario(<<"continue", "continue">>, "done", 0, 0, 0, 0, {"t1"}, {"completed"}),
     Scenario(<<"start", "stop", "stop">>, "empty", 0, 0, 0, 1, {"t1"}, Ends),
     Scenario(<<"continue", "delete">>, "done", 0, 0, 0, 0, {"t1"}, {"completed"}),
     Scenario(<<"continue">>, "native", 0, 0, 0, 0, {"t1"}, {"completed"}),
     Scenario(<<"continue">>, "done", MaxNotifs, MaxTicks, 0, 0, {"t1"}, Ends),
     Scenario(<<"continue">>, "done", 1, 0, MaxStderr, 1, ThreadIds, Ends)}

StoredMeta(s) ==
    IF s \in {"done", "both"}
    THEN [NoMeta EXCEPT !.status = "done", !.thread = "t1", !.created_at = 1,
                        !.last_used_at = 1]
    ELSE NoMeta

\* The server right after it came up: no request, no runner, no handle.
Idle ==
    /\ view = NoView
    /\ req = [q \in Req |-> NoReq]
    /\ run = [q \in Req |-> NoRun]
    /\ child = [q \in Req |-> "none"]
    /\ runs = NoHandle
    /\ gen = 1
    /\ conclusion = NoConclusion
    /\ usage = <<>>
    /\ bus = <<>>
    /\ hist = [received |-> [q \in Req |-> <<>>],
               appended |-> [q \in Req |-> <<>>],
               sent |-> [q \in Req |-> <<>>],
               sigint |-> [q \in Req |-> 0],
               timer |-> [q \in Req |-> FALSE],
               stray |-> FALSE,
               ended |-> [q \in Req |-> ""],
               launch |-> [q \in Req |-> ""],
               lost |-> [q \in Req |-> <<>>]]

InitOf(sc) ==
    /\ Idle
    /\ budget = sc
    /\ archive = (CASE sc.store = "native" -> ShownArchive
                     [] sc.store = "both" -> [ShownArchive EXCEPT !.title = "T",
                                                           !.order = <<"other", SessionId>>]
                     [] sc.store = "exec" -> ExecArchive
                     [] OTHER -> NoArchive)
    /\ native_cache = NoCache
    /\ dir = (sc.store \in {"done", "both"})
    /\ meta = StoredMeta(sc.store)
    /\ events = <<>>
    /\ stderr_log = <<>>
    /\ now = 1

Init == \E sc \in Scenarios : InitOf(sc)

\* ------------------------------------------------------------ primitives
\* A oneshot sender that is dropped unsent (its handle is overwritten or
\* removed while it still holds the sender) completes the receiver with an
\* error; `_ = &mut *cancel_rx` in read_next_json_line matches that too.
DropSender(rn, h) ==
    IF h.owner # 0 /\ h.cancel /\ rn[h.owner].rx = "open"
    THEN [rn EXCEPT ![h.owner].rx = "closed"]
    ELSE rn

\* The three messages of the bus share one record shape. src says who
\* published: a request handler, a runner, a runner's stderr task. by and n
\* identify a UiEvent: the n-th line of the publisher `by`.
NoBusMsg == [ev |-> "", src |-> "", stream |-> "", by |-> 0, n |-> 0, ts |-> 0, m |-> "",
             success |-> FALSE, exit_code |-> 0, pct |-> 0]

\* UiEvent published by broadcast_ui_event.
UiEvent(src, stream, by, n, ts, m) ==
    [NoBusMsg EXCEPT !.ev = "codex_event", !.src = src, !.stream = stream, !.by = by,
                     !.n = n, !.ts = ts, !.m = m]

\* RunFinished published by broadcast_run_finished; exit_code -1 is None.
RunFinished(src, by, ts, success, exit_code) ==
    [NoBusMsg EXCEPT !.ev = "codex_run_finished", !.src = src, !.by = by, !.ts = ts,
                     !.success = success, !.exit_code = exit_code]

\* ContextMetrics published by broadcast_metrics.
ContextMetrics(by, ts, pct) ==
    [NoBusMsg EXCEPT !.ev = "codex_metrics", !.src = "runner", !.by = by, !.ts = ts,
                     !.pct = pct]

\* A line of events.jsonl: the received object plus _ts_ms.
EventLine(src, by, n, ts, m) == [src |-> src, by |-> by, n |-> n, ts |-> ts, m |-> m]

\* A bus that makes the publisher wait while the connected subscriber has
\* BusCapacity messages still to read.
broadcast_event_waits(msg) ==
    /\ view.conn.pc = "open" => Len(bus) - view.conn.rx < BusCapacity
    /\ bus' = Append(bus, msg)

\* 356-359: `let _ = tx.send(..)`: the message is put on the channel whatever
\* the receivers have read.
broadcast_event(msg) == bus' = Append(bus, msg)

\* ------------------------------------------------------- request arrival
Issue(q, k) ==
    /\ req[q].pc = "idle"
    /\ IF q = 1 THEN TRUE ELSE req[q - 1].pc # "idle"
    /\ budget.plan # <<>>
    /\ k = Head(budget.plan)
    /\ req' = [req EXCEPT ![q] = [NoReq EXCEPT !.kind = k,
                  !.pc = CASE k = "start" -> "s_check"
                           [] k = "continue" -> "c_check"
                           [] k = "touch" -> "u_read"
                           [] k = "rename" -> "n_read"
                           [] k = "list" -> "l_list"
                           [] OTHER -> "t_take"]]
    /\ budget' = [budget EXCEPT !.plan = Tail(@)]
    /\ UNCHANGED <<run, child, runs, dir, gen, meta, events, stderr_log, conclusion,
                   usage, bus, now, hist,
                   archive, native_cache, view>>

Finish(q, code) == req' = [req EXCEPT ![q].pc = "done", ![q].code = code]
Goto(q, pc) == req' = [req EXCEPT ![q].pc = pc]

\* A start_session that writes the first meta.json before it looks whether the
\* session already exists.
start_check_after_write(q) ==
    /\ req[q].pc = "s_check"
    /\ meta' = [NoMeta EXCEPT !.status = "running", !.created_at = now,
                              !.last_used_at = now]
    /\ IF dir THEN Finish(q, 409) ELSE Goto(q, "s_mkdir")
    /\ UNCHANGED <<run, child, runs, dir, gen, events, stderr_log, conclusion,
                   usage, bus, now, budget, hist,
                   archive, native_cache, view>>

\* ---------------------------------------------------------- start_session
\* 1101-1104: the directory of an explicit session_id exists -> 409.
start_check(q) ==
    /\ req[q].pc = "s_check"
    /\ IF dir THEN Finish(q, 409) ELSE Goto(q, "s_mkdir")
    /\ UNCHANGED <<run, child, runs, dir, gen, meta, events, stderr_log, conclusion,
                   usage, bus, now, budget, hist,
                   archive, native_cache, view>>

\* 1105-1107: create_dir_all.
start_mkdir(q) ==
    /\ req[q].pc = "s_mkdir"
    /\ dir' = TRUE
    /\ Goto(q, "s_meta")
    /\ UNCHANGED <<run, child, runs, gen, meta, events, stderr_log, conclusion,
                   usage, bus, now, budget, hist,
                   archive, native_cache, view>>

\* 1125-1143: the first meta.json, status = running.
start_write_meta(q) ==
    /\ req[q].pc = "s_meta"
    /\ IF dir
       THEN /\ meta' = [NoMeta EXCEPT !.status = "running", !.created_at = now,
                                      !.last_used_at = now, !.cwd = budget.cwd]
            /\ Goto(q, "prompt")
       ELSE /\ Finish(q, 500)
            /\ UNCHANGED meta
    /\ UNCHANGED <<run, child, runs, dir, gen, events, stderr_log, conclusion,
                   usage, bus, now, budget, hist,
                   archive, native_cache, view>>

\* ------------------------------------- shared tail of start and continue
\* 1145-1164 / 1306-1325: the app.prompt line is appended to events.jsonl.
append_prompt(q) ==
    /\ req[q].pc = "prompt"
    /\ IF dir
       THEN /\ events' = Append(events, EventLine("handler", q, 1, now, "app.prompt"))
            /\ req' = [req EXCEPT ![q].pc = "prompt_bc", ![q].ts = now]
       ELSE /\ Finish(q, 500)
            /\ UNCHANGED events
    /\ UNCHANGED <<run, child, runs, dir, gen, meta, stderr_log, conclusion,
                   usage, bus, now, budget, hist,
                   archive, native_cache, view>>

\* 1166-1176 / 1326-1336: and published.
broadcast_prompt(q) ==
    /\ req[q].pc = "prompt_bc"
    /\ broadcast_event(UiEvent("handler", "stdout", q, 1, req[q].ts, "app.prompt"))
    /\ req' = [req EXCEPT ![q].pc = "resolve", ![q].ts = 0]
    /\ UNCHANGED <<run, child, runs, dir, gen, meta, events, stderr_log, conclusion,
                   usage, now, budget, hist,
                   archive, native_cache, view>>

\* 1179-1180 / 1339-1340: resolve_codex_executable; Err is a plain 500.
resolve_codex_executable(q) ==
    /\ req[q].pc = "resolve"
    /\ \/ /\ Goto(q, "insert")
          /\ UNCHANGED budget
          /\ UNCHANGED hist
       \/ /\ budget.faults > 0
          /\ budget' = [budget EXCEPT !.faults = @ - 1]
          /\ hist' = [hist EXCEPT !.launch[q] = "no executable"]
          /\ Finish(q, 500)
    /\ UNCHANGED <<run, child, runs, dir, gen, meta, events, stderr_log, conclusion,
                   usage, bus, now,
                   archive, native_cache, view>>

\* 1182-1217 / 1342-1378: the run handle is inserted (HashMap::insert replaces
\* whatever is there) and the runner is spawned.
insert_handle(q) ==
    /\ req[q].pc = "insert"
    /\ runs' = [owner |-> q, cancel |-> TRUE, pid |-> 0]
    /\ run' = [DropSender(run, runs) EXCEPT
                  ![q] = [NoRun EXCEPT !.pc = "spawn", !.thread_id = req[q].snap.thread,
                                       !.eff = req[q].snap.thread]]
    /\ Finish(q, 200)
    /\ UNCHANGED <<child, dir, gen, meta, events, stderr_log, conclusion,
                   usage, bus, now, budget, hist,
                   archive, native_cache, view>>

\* ------------------------------------------------------- continue_session
\* 1236-1241: 409 while a handle is present.
continue_check(q) ==
    /\ req[q].pc = "c_check"
    /\ IF runs.owner # 0 THEN Finish(q, 409) ELSE Goto(q, "c_mkdir")
    /\ UNCHANGED <<run, child, runs, dir, gen, meta, events, stderr_log, conclusion,
                   usage, bus, now, budget, hist,
                   archive, native_cache, view>>

\* 1252-1255: create_dir_all, before it is known whether the session exists.
continue_mkdir(q) ==
    /\ req[q].pc = "c_mkdir"
    /\ dir' = TRUE
    /\ Goto(q, "c_read")
    /\ UNCHANGED <<run, child, runs, gen, meta, events, stderr_log, conclusion,
                   usage, bus, now, budget, hist,
                   archive, native_cache, view>>

\* A continue that lets the stored cwd win over the one of the request.
RequestCwd_stored_first(stored) == IF stored # "" THEN stored ELSE budget.cwd

\* 1243-1250, 1278 and 1297: the cwd of the request, trimmed, or else the one
\* given (`cwd.clone().or(...)`).
RequestCwd(stored) == IF budget.cwd # "" THEN budget.cwd ELSE stored

\* 1256-1289: read_meta, else the native archive, else 404.
continue_read_meta(q) ==
    /\ req[q].pc = "c_read"
    /\ LET c == ensure_native_cache(native_cache, archive, now)
           native == native_session_meta(NativeSeen(c, archive), now)
       IN IF meta # NoMeta
          THEN /\ req' = [req EXCEPT ![q].pc = "c_meta", ![q].snap = meta]
               /\ UNCHANGED <<meta, native_cache>>
          ELSE /\ native_cache' = c
               /\ IF native # NoMeta
                  THEN IF dir
                       THEN /\ meta' = [native EXCEPT !.last_used_at = now,
                                                      !.cwd = RequestCwd(@)]
                            /\ req' = [req EXCEPT ![q].pc = "c_meta", ![q].snap = meta']
                       ELSE /\ Finish(q, 500)
                            /\ UNCHANGED meta
                  ELSE /\ Finish(q, 404)
                       /\ UNCHANGED meta
    /\ UNCHANGED <<run, child, runs, dir, gen, events, stderr_log, conclusion,
                   usage, bus, now, budget, hist,
                   archive, view>>

\* 1295-1304: the metadata read above is written back with status = running.
continue_write_meta(q) ==
    /\ req[q].pc = "c_meta"
    /\ IF dir
       THEN /\ meta' = [req[q].snap EXCEPT !.status = "running", !.last_used_at = now,
                                           !.cwd = RequestCwd(@)]
            /\ req' = [req EXCEPT ![q].pc = "prompt", ![q].snap = meta']
       ELSE /\ Finish(q, 500)
            /\ UNCHANGED meta
    /\ UNCHANGED <<run, child, runs, dir, gen, events, stderr_log, conclusion,
                   usage, bus, now, budget, hist,
                   archive, native_cache, view>>

\* ----------------------------------------------------------- stop_session
\* Where a handler goes when stop_session has returned: delete_session calls
\* it first (1447) and goes on.
StopReturns(q) ==
    IF req[q].kind = "delete" THEN [req[q] EXCEPT !.pc = "d_dir", !.tx = 0]
    ELSE [req[q] EXCEPT !.pc = "done", !.code = 204, !.tx = 0]

\* 1385-1391: under the lock, take the sender out of the handle and copy the pid.
stop_take(q) ==
    /\ req[q].pc = "t_take"
    /\ IF runs.owner = 0
       THEN /\ req' = [req EXCEPT ![q] = StopReturns(q)]
            /\ UNCHANGED runs
       ELSE /\ runs' = [runs EXCEPT !.cancel = FALSE]
            /\ req' = [req EXCEPT ![q].pc = "t_send",
                                  ![q].tx = IF runs.cancel THEN runs.owner ELSE 0,
                                  ![q].pid = runs.pid]
    /\ UNCHANGED <<run, child, dir, gen, meta, events, stderr_log, conclusion,
                   usage, bus, now, budget, hist,
                   archive, native_cache, view>>

\* stop_session that keeps the sender it took without ever sending on it, and
\* forgets the pid: nothing reaches the runner or its child.
stop_send_lost(q) ==
    /\ req[q].pc = "t_send"
    /\ req' = [req EXCEPT ![q].pc = "t_signal", ![q].pid = 0]
    /\ UNCHANGED <<run, child, runs, dir, gen, meta, events, stderr_log, conclusion,
                   usage, bus, now, budget, hist,
                   archive, native_cache, view>>

\* 1393-1398: cancel.send(()); it fails iff the runner has returned and dropped
\* its receiver.
stop_send(q) ==
    /\ req[q].pc = "t_send"
    /\ LET tx == req[q].tx
           dropped == tx # 0 /\ run[tx].pc = "done"
       IN /\ run' = IF tx # 0 /\ ~dropped THEN [run EXCEPT ![tx].rx = "fired"] ELSE run
          /\ req' = [req EXCEPT ![q].pc = "t_signal", ![q].rdrop = dropped]
    /\ UNCHANGED <<child, runs, dir, gen, meta, events, stderr_log, conclusion,
                   usage, bus, now, budget, hist,
                   archive, native_cache, view>>

\* 1400-1417: SIGINT to the recorded pid, and a task that sends SIGKILL 800 ms
\* later if the pid still answers.
stop_signal(q) ==
    /\ req[q].pc = "t_signal"
    /\ LET pid == req[q].pid
       IN /\ hist' = IF pid = 0 THEN hist
                     ELSE [hist EXCEPT !.sigint[pid] = @ + 1, !.timer[pid] = TRUE,
                                       !.stray = @ \/ child[pid] = "reaped"]
          /\ req' = [req EXCEPT ![q] =
                        IF req[q].rdrop THEN [req[q] EXCEPT !.pc = "t_remove", !.pid = 0]
                        ELSE [StopReturns(q) EXCEPT !.pid = 0]]
    /\ UNCHANGED <<run, child, runs, dir, gen, meta, events, stderr_log, conclusion,
                   usage, bus, now, budget,
                   archive, native_cache, view>>

\* 1408-1414: the delayed SIGKILL.
sigkill_timer(r) ==
    /\ hist.timer[r]
    /\ hist' = [hist EXCEPT !.timer[r] = FALSE]
    /\ child' = IF child[r] = "running" THEN [child EXCEPT ![r] = "exited"] ELSE child
    /\ UNCHANGED <<req, run, runs, dir, gen, meta, events, stderr_log, conclusion,
                   usage, bus, now, budget,
                   archive, native_cache, view>>

\* 1419-1423: receiver_dropped: remove whatever handle the id has now.
stop_remove(q) ==
    /\ req[q].pc = "t_remove"
    /\ runs' = NoHandle
    /\ run' = DropSender(run, runs)
    /\ Goto(q, "t_mread")
    /\ UNCHANGED <<child, dir, gen, meta, events, stderr_log, conclusion,
                   usage, bus, now, budget, hist,
                   archive, native_cache, view>>

\* 1424: read_meta.
stop_read_meta(q) ==
    /\ req[q].pc = "t_mread"
    /\ req' = [req EXCEPT ![q].snap = meta,
                          ![q].pc = IF meta = NoMeta THEN "t_bc" ELSE "t_mwrite"]
    /\ UNCHANGED <<run, child, runs, dir, gen, meta, events, stderr_log, conclusion,
                   usage, bus, now, budget, hist,
                   archive, native_cache, view>>

\* 1425-1426: status = error.
stop_write_meta(q) ==
    /\ req[q].pc = "t_mwrite"
    /\ meta' = IF dir THEN [req[q].snap EXCEPT !.status = "error"] ELSE meta
    /\ req' = [req EXCEPT ![q].pc = "t_bc", ![q].snap = NoMeta]
    /\ UNCHANGED <<run, child, runs, dir, gen, events, stderr_log, conclusion,
                   usage, bus, now, budget, hist,
                   archive, native_cache, view>>

\* 1428-1437: the synthesized codex_run_finished.
stop_broadcast(q) ==
    /\ req[q].pc = "t_bc"
    /\ broadcast_event(RunFinished("handler", q, now, FALSE, -1))
    /\ req' = [req EXCEPT ![q] = [StopReturns(q) EXCEPT !.rdrop = FALSE]]
    /\ UNCHANGED <<run, child, runs, dir, gen, meta, events, stderr_log, conclusion,
                   usage, now, budget, hist,
                   archive, native_cache, view>>

\* --------------------------------------------------------- delete_session
\* 1448-1454: remove_dir_all of the session directory.
delete_dir(q) ==
    /\ req[q].pc = "d_dir"
    /\ req' = [req EXCEPT ![q].pc = "d_native", ![q].warp_exists = dir]
    /\ IF dir
       THEN /\ dir' = FALSE
            /\ gen' = gen + 1
            /\ meta' = NoMeta
            /\ events' = <<>>
            /\ stderr_log' = <<>>
            /\ conclusion' = NoConclusion
       ELSE UNCHANGED <<dir, gen, meta, events, stderr_log, conclusion>>
    /\ UNCHANGED <<run, child, runs, usage, bus, now, budget, hist,
                   archive, native_cache, view>>

\* 1456-1471: the rollout files the cache holds for the id are removed; 404
\* when there was neither a directory nor a cached path. The cache itself is
\* left as it is.
delete_native(q) ==
    /\ req[q].pc = "d_native"
    /\ LET c == ensure_native_cache(native_cache, archive, now)
           Kept(f) == \A i \in 1..Len(c.paths) : c.paths[i] # f
       IN /\ native_cache' = c
          /\ archive' = [archive EXCEPT !.paths = SelectSeq(@, Kept)]
          /\ req' = [req EXCEPT ![q].pc = "done", ![q].warp_exists = FALSE,
                                ![q].code = IF req[q].warp_exists \/ c.paths # <<>>
                                            THEN 204 ELSE 404]
    /\ UNCHANGED <<run, child, runs, dir, gen, meta, events, stderr_log, conclusion,
                   usage, bus, now, budget, hist, view>>

\* ------------------------------------------------- rejected before any work
\* 1089-1097 and 1230-1233: a blank prompt, or a session_id that is no UUID,
\* is answered 400 before anything is looked at.
reject_bad_request(q) ==
    /\ req[q].pc \in {"s_check", "c_check"}
    /\ budget.bad > 0
    /\ budget' = [budget EXCEPT !.bad = @ - 1]
    /\ Finish(q, 400)
    /\ UNCHANGED <<run, child, runs, dir, gen, meta, events, stderr_log, conclusion,
                   usage, bus, now, hist, archive, native_cache, view>>

\* ---------------------------------------------------------- touch_session
\* 1669-1670 read_meta; without local metadata 1677-1680: the native session,
\* returned with last_used_at = now and not stored, or 404.
touch_read(q) ==
    /\ req[q].pc = "u_read"
    /\ LET c == ensure_native_cache(native_cache, archive, now)
           native == native_session_meta(NativeSeen(c, archive), now)
       IN IF meta # NoMeta
          THEN /\ req' = [req EXCEPT ![q].pc = "u_write", ![q].snap = meta]
               /\ UNCHANGED native_cache
          ELSE /\ native_cache' = c
               /\ req' = [req EXCEPT ![q].pc = "done",
                              ![q].code = IF native = NoMeta THEN 404 ELSE 200,
                              ![q].snap = IF native = NoMeta THEN NoMeta
                                          ELSE [native EXCEPT !.last_used_at = now]]
    /\ UNCHANGED <<run, child, runs, dir, gen, meta, events, stderr_log, conclusion,
                   usage, bus, now, budget, hist, archive, view>>

\* 1671-1675: the metadata read above is written back with last_used_at = now.
touch_write(q) ==
    /\ req[q].pc = "u_write"
    /\ IF dir
       THEN /\ meta' = [req[q].snap EXCEPT !.last_used_at = now]
            /\ req' = [req EXCEPT ![q].pc = "done", ![q].code = 200, ![q].snap = meta']
       ELSE /\ Finish(q, 500)
            /\ UNCHANGED meta
    /\ UNCHANGED <<run, child, runs, dir, gen, events, stderr_log, conclusion,
                   usage, bus, now, budget, hist, archive, native_cache, view>>

\* --------------------------------------------------------- rename_session
\* 1479: the title of the payload; each request of the model brings its own.
TitleOf(q) == IF q = 1 THEN "r1" ELSE IF q = 2 THEN "r2" ELSE "r3"

\* 1482-1483 read_meta; without local metadata 1491-1498: 404 unless the cache
\* has rollouts of the id.
rename_read(q) ==
    /\ req[q].pc = "n_read"
    /\ LET c == ensure_native_cache(native_cache, archive, now)
       IN IF meta # NoMeta
          THEN /\ req' = [req EXCEPT ![q].pc = "n_write", ![q].snap = meta]
               /\ UNCHANGED native_cache
          ELSE /\ native_cache' = c
               /\ IF c.paths = <<>> THEN Finish(q, 404) ELSE Goto(q, "n_title")
    /\ UNCHANGED <<run, child, runs, dir, gen, meta, events, stderr_log, conclusion,
                   usage, bus, now, budget, hist, archive, view>>

\* 1484-1488: the metadata read above is written back with the new title.
rename_write(q) ==
    /\ req[q].pc = "n_write"
    /\ IF dir
       THEN /\ meta' = [req[q].snap EXCEPT !.title = TitleOf(q)]
            /\ req' = [req EXCEPT ![q].pc = "done", ![q].code = 204, ![q].snap = NoMeta]
       ELSE /\ Finish(q, 500)
            /\ UNCHANGED meta
    /\ UNCHANGED <<run, child, runs, dir, gen, events, stderr_log, conclusion,
                   usage, bus, now, budget, hist, archive, native_cache, view>>

\* 1503-1545: the title goes into the thread titles of the agent home, and the
\* id to the front of the order list unless the list has it.
rename_native(q) ==
    /\ req[q].pc = "n_title"
    /\ archive' = [archive EXCEPT !.title = TitleOf(q),
                                  !.order = IF \E i \in 1..Len(@) : @[i] = SessionId
                                            THEN @ ELSE <<SessionId>> \o @]
    /\ Finish(q, 204)
    /\ UNCHANGED <<run, child, runs, dir, gen, meta, events, stderr_log, conclusion,
                   usage, bus, now, budget, hist, native_cache, view>>

\* ------------------------------------------------------------ environment
\* Wall-clock time passes.
Tick ==
    /\ budget.ticks > 0
    /\ \E d \in {1, MetricsGateMs} : now' = now + d
    /\ budget' = [budget EXCEPT !.ticks = @ - 1]
    /\ UNCHANGED <<req, run, child, runs, dir, gen, meta, events, stderr_log,
                   conclusion, usage, bus, hist,
                   archive, native_cache, view>>

\* The child exits by itself: on the SIGINT it was sent, or by crashing.
child_exit(r) ==
    /\ child[r] = "running"
    /\ \/ /\ hist.sigint[r] > 0
          /\ UNCHANGED budget
       \/ /\ hist.sigint[r] = 0
          /\ budget.faults > 0
          /\ budget' = [budget EXCEPT !.faults = @ - 1]
    /\ child' = [child EXCEPT ![r] = "exited"]
    /\ UNCHANGED <<req, run, runs, dir, gen, meta, events, stderr_log, conclusion,
                   usage, bus, now, hist,
                   archive, native_cache, view>>

\* ------------------------------------------------- pure helpers of the runner
\* A snapshot whose percentage is rounded down.
extract_token_usage_truncating(n) ==
    IF n.m # "thread/tokenUsage/updated" \/ n.w = 0 THEN <<>>
    ELSE <<n.w, n.t, Min(100, (Max(0, n.w - n.t) * 100) \div n.w)>>

\* 2024-2067: <<window, total_tokens, pct_left>>, or <<>> for None.
extract_token_usage_snapshot(n) ==
    IF n.m # "thread/tokenUsage/updated" \/ n.w = 0 THEN <<>>
    ELSE LET remaining == Max(0, n.w - n.t)
         IN <<n.w, n.t, Min(100, ((remaining * 100) + (n.w \div 2)) \div n.w)>>

\* A capture that never starts over on the delta of another item.
capture_keeps_other_items(n, rn) ==
    IF n.m = "item/agentMessage/delta"
    THEN IF n.item = "" THEN rn
         ELSE [rn EXCEPT !.agent_item_id = n.item, !.agent_text = @ \o <<n.text>>]
    ELSE IF n.m = "item/completed" /\ n.st = "agentMessage" /\ n.text # NoText
    THEN [rn EXCEPT !.agent_item_id = n.item, !.agent_text = <<n.text>>]
    ELSE rn

\* 1960-2003: the new agent_item_id and agent_text of runner state rn.
capture_agent_message_text(n, rn) ==
    IF n.m = "item/agentMessage/delta"
    THEN IF n.item = "" THEN rn
         ELSE [rn EXCEPT !.agent_item_id = n.item,
                         !.agent_text = (IF rn.agent_item_id # n.item THEN <<>> ELSE @)
                                        \o <<n.text>>]
    ELSE IF n.m = "item/completed" /\ n.st = "agentMessage" /\ n.text # NoText
    THEN [rn EXCEPT !.agent_item_id = n.item, !.agent_text = <<n.text>>]
    ELSE rn

IsBlank(text) == \A i \in 1..Len(text) : text[i] \in {"", " "}

WaitPhases == {"init", "resume", "start", "turn"}

\* The responses the child can give to the request of a phase: ok says whether
\* it carries a result, id the thread.id (or turn.id) of the result.
Responses(ph) ==
    IF ph = "init" THEN {[ok |-> TRUE, id |-> ""], [ok |-> FALSE, id |-> ""]}
    ELSE IF ph = "turn" THEN {[ok |-> TRUE, id |-> "u1"], [ok |-> TRUE, id |-> ""],
                              [ok |-> FALSE, id |-> ""]}
    ELSE {[ok |-> TRUE, id |-> t] : t \in ThreadIds \cup {""}} \cup {[ok |-> FALSE, id |-> ""]}

\* A runner that starts a new thread where it should resume the stored one.
Method_never_resumes(ph) ==
    CASE ph = "init" -> "initialize"
      [] ph \in {"resume", "start"} -> "thread/start"
      [] OTHER -> "turn/start"

\* 2324-2536: the method of the request each phase writes.
Method(ph) == CASE ph = "init" -> "initialize"
                [] ph = "resume" -> "thread/resume"
                [] ph = "start" -> "thread/start"
                [] OTHER -> "turn/start"

\* `let _ = child.kill().await; fail_and_finish(.., exit_code).await; return`
Fail(rn, exit) == [rn EXCEPT !.pc = "ff_stderr", !.exit_code = exit, !.success = FALSE]

\* A wait_for_app_server_response that returns an error other than "cancelled":
\* 2440-2442 falls through to thread/start, every other phase fails the turn.
OnErr(rn) ==
    IF rn.phase = "resume" THEN [rn EXCEPT !.eff = "", !.phase = "start", !.pc = "send"]
    ELSE Fail(rn, 1)

\* ------------------------------------------------ run_turn_via_app_server
\* 2207-2231: cmd.spawn().
spawn(r) ==
    /\ run[r].pc = "spawn"
    /\ \/ /\ child' = [child EXCEPT ![r] = "running"]
          /\ run' = [run EXCEPT ![r].pc = "pid"]
          /\ UNCHANGED budget
          /\ UNCHANGED hist
       \/ /\ budget.faults > 0
          /\ budget' = [budget EXCEPT !.faults = @ - 1]
          /\ run' = [run EXCEPT ![r] = Fail(@, 1)]
          /\ hist' = [hist EXCEPT !.launch[r] = "spawn failed"]
          /\ UNCHANGED child
    /\ UNCHANGED <<req, runs, dir, gen, meta, events, stderr_log, conclusion,
                   usage, bus, now,
                   archive, native_cache, view>>

\* 2233-2238: the pid goes into whatever handle the id has.
record_pid(r) ==
    /\ run[r].pc = "pid"
    /\ runs' = IF runs.owner # 0 THEN [runs EXCEPT !.pid = r] ELSE runs
    /\ run' = [run EXCEPT ![r].pc = "open"]
    /\ UNCHANGED <<req, child, dir, gen, meta, events, stderr_log, conclusion,
                   usage, bus, now, budget, hist,
                   archive, native_cache, view>>

\* 2292-2320: the stderr task is spawned; events.jsonl is opened for append.
open_events(r) ==
    /\ run[r].pc = "open"
    /\ IF dir
       THEN /\ run' = [run EXCEPT ![r].pc = "send", ![r].phase = "init", ![r].fd = gen,
                                  ![r].stderr_fd = 0]
            /\ UNCHANGED child
       ELSE /\ run' = [run EXCEPT ![r] = [Fail(@, 1) EXCEPT !.stderr_fd = 0]]
            /\ child' = [child EXCEPT ![r] = "reaped"]
    /\ UNCHANGED <<req, runs, dir, gen, meta, events, stderr_log, conclusion,
                   usage, bus, now, budget, hist,
                   archive, native_cache, view>>

\* 2324-2356, 2391-2403, 2447-2458, 2525-2536: write_jsonrpc_request. Only the
\* initialize write is checked for failure.
send(r) ==
    /\ run[r].pc = "send"
    /\ hist' = [hist EXCEPT !.sent[r] = Append(@, [id |-> run[r].next_id,
                   method |-> Method(run[r].phase),
                   thread |-> IF run[r].phase = "resume" THEN run[r].thread_id
                              ELSE IF run[r].phase = "turn" THEN run[r].eff ELSE "",
                   turn |-> ""])]
    /\ IF run[r].phase = "init" /\ child[r] # "running"
       THEN /\ run' = [run EXCEPT ![r] = [Fail(@, 1) EXCEPT !.next_id = @ + 1]]
            /\ child' = [child EXCEPT ![r] = "reaped"]
       ELSE /\ run' = [run EXCEPT ![r].pc = "read", ![r].next_id = @ + 1]
            /\ UNCHANGED child
    /\ UNCHANGED <<req, runs, dir, gen, meta, events, stderr_log, conclusion,
                   usage, bus, now, budget,
                   archive, native_cache, view>>

\* 1897-1898: the cancel branch of the select!.
read_cancel(r) ==
    /\ run[r].pc = "read"
    /\ run[r].rx \in {"fired", "closed"}
    /\ IF run[r].phase = "drain"
       THEN /\ run' = [run EXCEPT ![r].cancelled = TRUE, ![r].pc = "fin"]
            /\ UNCHANGED child
       ELSE /\ run' = [run EXCEPT ![r] = Fail(@, -1)]
            /\ child' = [child EXCEPT ![r] = "reaped"]
    /\ hist' = [hist EXCEPT !.ended[r] = "cancelled"]
    /\ UNCHANGED <<req, runs, dir, gen, meta, events, stderr_log, conclusion,
                   usage, bus, now, budget,
                   archive, native_cache, view>>

\* 1899-1903: next_line() returns None.
read_eof(r) ==
    /\ run[r].pc = "read"
    /\ child[r] = "exited"
    /\ IF run[r].phase = "drain"
       THEN /\ run' = [run EXCEPT ![r].pc = "fin"]
            /\ UNCHANGED child
       ELSE /\ run' = [run EXCEPT ![r] = OnErr(@)]
            /\ child' = IF run[r].phase = "resume" THEN child
                        ELSE [child EXCEPT ![r] = "reaped"]
    /\ hist' = [hist EXCEPT !.ended[r] = IF run[r].phase = "resume" THEN @ ELSE "closed"]
    /\ UNCHANGED <<req, runs, dir, gen, meta, events, stderr_log, conclusion,
                   usage, bus, now, budget,
                   archive, native_cache, view>>

\* 2115-2124 with 2358-2387, 2405-2443, 2460-2500, 2538-2577: the line that
\* answers the awaited request.
read_response(r, res) ==
    /\ run[r].pc = "read"
    /\ run[r].phase \in WaitPhases
    /\ child[r] = "running"
    /\ res \in Responses(run[r].phase)
    /\ res.id \in budget.tids \cup {"", "u1"}
    /\ IF res.ok /\ (res.id # "" \/ run[r].phase = "init")
       THEN UNCHANGED budget
       ELSE /\ budget.faults > 0
            /\ budget' = [budget EXCEPT !.faults = @ - 1]
    /\ LET rn == run[r]
           ph == rn.phase
           next ==
               IF ~res.ok THEN OnErr(rn)
               ELSE IF ph = "init"
               THEN [rn EXCEPT !.pc = "send",
                               !.phase = IF rn.thread_id # "" THEN "resume" ELSE "start"]
               ELSE IF ph = "turn"
               THEN [rn EXCEPT !.pc = "read", !.phase = "drain", !.turn_id = res.id]
               ELSE IF res.id # "" THEN [rn EXCEPT !.pc = "tid_read", !.eff = res.id]
               ELSE IF rn.eff # "" THEN [rn EXCEPT !.pc = "tid_read"]
               ELSE Fail(rn, 1)
       IN /\ run' = [run EXCEPT ![r] = next]
          /\ child' = IF next.pc = "ff_stderr" THEN [child EXCEPT ![r] = "reaped"] ELSE child
    /\ UNCHANGED <<req, runs, dir, gen, meta, events, stderr_log, conclusion,
                   usage, bus, now, hist,
                   archive, native_cache, view>>

\* 2115-2117 (a response to another id) and 2597-2599 (a line with no method in
\* the drain): skipped.
read_skipped(r) ==
    /\ run[r].pc = "read"
    /\ child[r] = "running"
    /\ budget.notifs > 0
    /\ budget' = [budget EXCEPT !.notifs = @ - 1]
    /\ UNCHANGED <<req, run, child, runs, dir, gen, meta, events, stderr_log,
                   conclusion, usage, bus, now, hist,
                   archive, native_cache, view>>

\* 1905: a line that is not JSON is an error of read_next_json_line.
read_bad_json(r) ==
    /\ run[r].pc = "read"
    /\ child[r] = "running"
    /\ budget.notifs > 0
    /\ budget' = [budget EXCEPT !.notifs = @ - 1]
    /\ IF run[r].phase = "drain"
       THEN /\ run' = [run EXCEPT ![r].pc = "fin"]
            /\ UNCHANGED child
       ELSE /\ run' = [run EXCEPT ![r] = OnErr(@)]
            /\ child' = IF run[r].phase = "resume" THEN child
                        ELSE [child EXCEPT ![r] = "reaped"]
    /\ hist' = [hist EXCEPT !.ended[r] = IF run[r].phase = "resume" THEN @ ELSE "bad_json"]
    /\ UNCHANGED <<req, runs, dir, gen, meta, events, stderr_log, conclusion,
                   usage, bus, now,
                   archive, native_cache, view>>

\* 2110-2113 and 2597-2627: a line with a method. In the drain a token-usage
\* update first goes through the metrics gate (2601-2624).
read_notification(r, n) ==
    /\ run[r].pc = "read"
    /\ child[r] = "running"
    /\ n \in ChildNotifs(budget.items)
    /\ IF run[r].phase = "drain" /\ n.m = "turn/completed"
       THEN /\ n.st \in budget.ends
            /\ UNCHANGED budget
       ELSE /\ budget.notifs > 0
            /\ budget' = [budget EXCEPT !.notifs = @ - 1]
    /\ hist' = [hist EXCEPT !.received[r] = Append(@, n)]
    /\ LET rn == run[r]
           snap == IF rn.phase = "drain" THEN extract_token_usage_snapshot(n) ELSE <<>>
           rn1 == IF snap # <<>> THEN [rn EXCEPT !.snapshot = snap] ELSE rn
           gate == /\ snap # <<>>
                   /\ rn.last_metrics_emitted_pct # snap[3]
                   /\ \/ rn.last_metrics_emit_ms = 0
                      \/ Max(0, now - rn.last_metrics_emit_ms) >= MetricsGateMs
       IN run' = [run EXCEPT ![r] =
                     IF gate THEN [rn1 EXCEPT !.pc = "dm_read", !.mnow = now, !.msg = n]
                     ELSE IF n.m \in SUPPRESSED THEN capture_agent_message_text(n, rn1)
                     ELSE [rn1 EXCEPT !.pc = "persist", !.msg = n]]
    /\ UNCHANGED <<req, child, runs, dir, gen, meta, events, stderr_log, conclusion,
                   usage, bus, now,
                   archive, native_cache, view>>

\* 1938-1944: persist_and_emit_stdout stamps the line and appends it through
\* the runner's file handle. A handle opened in an incarnation of the directory
\* that has been deleted since writes to an unlinked file.
persist(r) ==
    /\ run[r].pc = "persist"
    /\ run' = [run EXCEPT ![r].pc = "emit", ![r].msg_ts = now]
    /\ events' = IF run[r].fd = gen /\ dir
                 THEN Append(events, EventLine("runner", r, Len(hist.appended[r]) + 1, now, run[r].msg.m))
                 ELSE events
    /\ hist' = [hist EXCEPT !.appended[r] = Append(@, [n |-> run[r].msg, ts |-> now])]
    /\ UNCHANGED <<req, child, runs, dir, gen, meta, stderr_log, conclusion,
                   usage, bus, now, budget,
                   archive, native_cache, view>>

\* A drain that reports an interrupted turn like a failed one.
after_persist_interrupted_fails(rn0) ==
    LET rn == capture_agent_message_text(rn0.msg, rn0)
        n == rn0.msg
        ok == n.st = "completed"
    IN IF rn.phase = "drain" /\ n.m = "turn/completed"
       THEN [rn EXCEPT !.pc = "fin", !.msg = NoMsg, !.success = ok,
                       !.exit_code = IF ok THEN -1 ELSE 1]
       ELSE [rn EXCEPT !.pc = "read", !.msg = NoMsg]

\* What follows persist_and_emit_stdout, whatever it returned (`let _ =`):
\* 2112/2627 capture_agent_message_text and 2629-2639 the end of the drain on
\* turn/completed.
after_persist(rn0) ==
    LET rn == capture_agent_message_text(rn0.msg, rn0)
        n == rn0.msg
        ok == n.st = "completed"
    IN IF rn.phase = "drain" /\ n.m = "turn/completed"
       THEN [rn EXCEPT !.pc = "fin", !.msg = NoMsg, !.success = ok,
                       !.exit_code = IF ok \/ n.st = "interrupted" THEN -1 ELSE 1]
       ELSE [rn EXCEPT !.pc = "read", !.msg = NoMsg]

\* 1943-1944: write_all fails (disk full, I/O error): `?` returns the error
\* from persist_and_emit_stdout before broadcast_ui_event is reached; the
\* caller drops the error and goes on.
persist_failed(r) ==
    /\ run[r].pc = "persist"
    /\ budget.io > 0
    /\ budget' = [budget EXCEPT !.io = @ - 1]
    /\ run' = [run EXCEPT ![r] = after_persist(run[r])]
    /\ hist' = [hist EXCEPT !.lost[r] = Append(@, run[r].msg),
                            !.ended[r] = IF run[r].phase = "drain"
                                            /\ run[r].msg.m = "turn/completed"
                                         THEN run[r].msg.st ELSE @]
    /\ UNCHANGED <<req, child, runs, dir, gen, meta, events, stderr_log, conclusion,
                   usage, bus, now, archive, native_cache, view>>

\* 1946-1956 broadcast_ui_event, then what follows the call.
emit(r) ==
    /\ run[r].pc = "emit"
    /\ broadcast_event(UiEvent("runner", "stdout", r, Len(hist.appended[r]), run[r].msg_ts,
                               run[r].msg.m))
    /\ run' = [run EXCEPT ![r] = after_persist(run[r])]
    /\ hist' = IF run[r].phase = "drain" /\ run[r].msg.m = "turn/completed"
               THEN [hist EXCEPT !.ended[r] = run[r].msg.st]
               ELSE hist
    /\ UNCHANGED <<req, child, runs, dir, gen, meta, events, stderr_log, conclusion,
                   usage, now, budget,
                   archive, native_cache, view>>

\* Where a runner goes after a read_meta and after the write_meta that may
\* follow it.
AfterMeta(pc) == CASE pc \in {"tid_read", "tid_write"} -> "send"
                   [] pc \in {"dm_read", "dm_write"} -> "dm_bc"
                   [] pc \in {"fm_read", "fm_write"} -> "fm_bc"
                   [] pc \in {"st_read", "st_write"} -> "finished"
                   [] OTHER -> "ff_remove"

WriteOf(pc) == CASE pc = "tid_read" -> "tid_write"
                 [] pc = "dm_read" -> "dm_write"
                 [] pc = "fm_read" -> "fm_write"
                 [] pc = "st_read" -> "st_write"
                 [] OTHER -> "ff_mwrite"

\* What each read-modify-write of meta.json changes in the value it read:
\* 2518-2523 codex_session_id, 2069-2077 the context fields, 2706-2709 and
\* 2190-2193 the status.
MetaUpdate(rn) ==
    CASE rn.pc = "tid_write" -> [rn.msnap EXCEPT !.thread = rn.eff]
      [] rn.pc \in {"dm_write", "fm_write"} -> [rn.msnap EXCEPT !.ctx = rn.snapshot]
      [] rn.pc = "st_write" -> [rn.msnap EXCEPT !.status = IF rn.success THEN "done" ELSE "error"]
      [] OTHER -> [rn.msnap EXCEPT !.status = "error"]

\* read_meta (330-337) at 2518, 2070, 2706, 2190.
runner_read_meta(r) ==
    /\ run[r].pc \in {"tid_read", "dm_read", "fm_read", "st_read", "ff_mread"}
    /\ LET pc == run[r].pc
           skip == \/ meta = NoMeta
                   \/ pc = "tid_read" /\ meta.thread = run[r].eff
           to == IF skip THEN AfterMeta(pc) ELSE WriteOf(pc)
       IN run' = [run EXCEPT ![r].pc = to, ![r].msnap = meta,
                             ![r].phase = IF to = "send" THEN "turn" ELSE @]
    /\ UNCHANGED <<req, child, runs, dir, gen, meta, events, stderr_log, conclusion,
                   usage, bus, now, budget, hist,
                   archive, native_cache, view>>

\* write_meta (339-344) at 2521, 2076, 2708, 2192: writes the value read
\* earlier, whatever meta.json holds by now; fails silently without the directory.
runner_write_meta(r) ==
    /\ run[r].pc \in {"tid_write", "dm_write", "fm_write", "st_write", "ff_mwrite"}
    /\ meta' = IF dir THEN MetaUpdate(run[r]) ELSE meta
    /\ run' = [run EXCEPT ![r].pc = AfterMeta(run[r].pc),
                          ![r].phase = IF run[r].pc = "tid_write" THEN "turn" ELSE @]
    /\ UNCHANGED <<req, child, runs, dir, gen, events, stderr_log, conclusion,
                   usage, bus, now, budget, hist,
                   archive, native_cache, view>>

\* 2608-2620: broadcast_metrics in the drain; then 2626 persist_and_emit_stdout,
\* which returns at once for a suppressed method (1929-1936).
drain_metrics(r) ==
    /\ run[r].pc = "dm_bc"
    /\ broadcast_event(ContextMetrics(r, run[r].mnow, run[r].snapshot[3]))
    /\ run' = [run EXCEPT ![r].pc = IF run[r].msg.m \in SUPPRESSED THEN "read" ELSE "persist",
                          ![r].msg = IF run[r].msg.m \in SUPPRESSED THEN NoMsg ELSE @,
                          ![r].last_metrics_emit_ms = run[r].mnow,
                          ![r].last_metrics_emitted_pct = run[r].snapshot[3]]
    /\ UNCHANGED <<req, child, runs, dir, gen, meta, events, stderr_log, conclusion,
                   usage, now, budget, hist,
                   archive, native_cache, view>>

\* A finalization that interrupts every cancelled turn, with or without a
\* retained turn id.
finalize_interrupts_blindly(r) ==
    /\ run[r].pc = "fin"
    /\ LET rn == run[r]
           rn1 == IF rn.cancelled THEN [rn EXCEPT !.exit_code = -1, !.success = FALSE] ELSE rn
       IN /\ run' = [run EXCEPT ![r] = [rn1 EXCEPT !.mnow = now,
                        !.pc = IF rn.snapshot # <<>> THEN "fm_read" ELSE "concl"]]
          /\ hist' = IF rn.cancelled
                     THEN [hist EXCEPT !.sent[r] = Append(@, [id |-> rn.next_id,
                              method |-> "turn/interrupt", thread |-> rn.eff,
                              turn |-> rn.turn_id])]
                     ELSE hist
    /\ UNCHANGED <<req, child, runs, dir, gen, meta, events, stderr_log, conclusion,
                   usage, bus, now, budget,
                   archive, native_cache, view>>

\* A finalization that leaves the outcome of a cancelled drain as the drain
\* left it.
finalize_keeps_outcome(r) ==
    /\ run[r].pc = "fin"
    /\ LET rn == run[r]
       IN /\ run' = [run EXCEPT ![r] = [rn EXCEPT !.mnow = now,
                        !.pc = IF rn.snapshot # <<>> THEN "fm_read" ELSE "concl"]]
          /\ hist' = IF rn.cancelled /\ rn.eff # "" /\ rn.turn_id # ""
                     THEN [hist EXCEPT !.sent[r] = Append(@, [id |-> rn.next_id,
                              method |-> "turn/interrupt", thread |-> rn.eff,
                              turn |-> rn.turn_id])]
                     ELSE hist
    /\ UNCHANGED <<req, child, runs, dir, gen, meta, events, stderr_log, conclusion,
                   usage, bus, now, budget,
                   archive, native_cache, view>>

\* 2642-2658: after the drain. A cancelled turn is interrupted when a thread id
\* and a turn id are known; `now` of the final metrics is taken here.
finalize(r) ==
    /\ run[r].pc = "fin"
    /\ LET rn == run[r]
           rn1 == IF rn.cancelled THEN [rn EXCEPT !.exit_code = -1, !.success = FALSE] ELSE rn
       IN /\ run' = [run EXCEPT ![r] = [rn1 EXCEPT !.mnow = now,
                        !.pc = IF rn.snapshot # <<>> THEN "fm_read" ELSE "concl"]]
          /\ hist' = IF rn.cancelled /\ rn.eff # "" /\ rn.turn_id # ""
                     THEN [hist EXCEPT !.sent[r] = Append(@, [id |-> rn.next_id,
                              method |-> "turn/interrupt", thread |-> rn.eff,
                              turn |-> rn.turn_id])]
                     ELSE hist
    /\ UNCHANGED <<req, child, runs, dir, gen, meta, events, stderr_log, conclusion,
                   usage, bus, now, budget,
                   archive, native_cache, view>>

\* 2660-2670: the unconditional codex_metrics of finalization.
final_metrics(r) ==
    /\ run[r].pc = "fm_bc"
    /\ broadcast_event(ContextMetrics(r, run[r].mnow, run[r].snapshot[3]))
    /\ run' = [run EXCEPT ![r].pc = "fm_usage"]
    /\ UNCHANGED <<req, child, runs, dir, gen, meta, events, stderr_log, conclusion,
                   usage, now, budget, hist,
                   archive, native_cache, view>>

\* 2671-2685 append_usage_record (usage.jsonl lives in the data dir, not in
\* the session directory).
append_usage_record(r) ==
    /\ run[r].pc = "fm_usage"
    /\ usage' = Append(usage, [ts |-> run[r].mnow, by |-> r, thread |-> run[r].eff,
                               window |-> run[r].snapshot[1], total |-> run[r].snapshot[2]])
    /\ run' = [run EXCEPT ![r].pc = "concl"]
    /\ UNCHANGED <<req, child, runs, dir, gen, meta, events, stderr_log, conclusion,
                   bus, now, budget, hist,
                   archive, native_cache, view>>

\* 2688-2690: conclusion.md is written when the collected text is not blank.
write_conclusion(r) ==
    /\ run[r].pc = "concl"
    /\ conclusion' = IF ~IsBlank(run[r].agent_text) /\ dir
                     THEN [kind |-> "agent", text |-> run[r].agent_text]
                     ELSE conclusion
    /\ run' = [run EXCEPT ![r].pc = "reap"]
    /\ UNCHANGED <<req, child, runs, dir, gen, meta, events, stderr_log,
                   usage, bus, now, budget, hist,
                   archive, native_cache, view>>

\* 2692-2699: stdin is dropped, the child is waited for 2 s, then killed and
\* waited for.
reap(r) ==
    /\ run[r].pc = "reap"
    /\ child' = [child EXCEPT ![r] = "reaped"]
    /\ run' = [run EXCEPT ![r].pc = "remove"]
    /\ UNCHANGED <<req, runs, dir, gen, meta, events, stderr_log, conclusion,
                   usage, bus, now, budget, hist,
                   archive, native_cache, view>>

\* A finalization that leaves the run handle in the table.
remove_handle_skipped(r) ==
    /\ run[r].pc \in {"remove", "ff_remove"}
    /\ run' = [run EXCEPT ![r].pc = IF run[r].pc = "remove" THEN "st_read" ELSE "ff_bc"]
    /\ UNCHANGED <<req, child, runs, dir, gen, meta, events, stderr_log, conclusion,
                   usage, bus, now, budget, hist,
                   archive, native_cache, view>>

\* 2701-2704 and 2196-2199: locked.remove(&session_id) removes whatever handle
\* the id has.
remove_handle(r) ==
    /\ run[r].pc \in {"remove", "ff_remove"}
    /\ runs' = NoHandle
    /\ run' = [DropSender(run, runs) EXCEPT
                  ![r].pc = IF run[r].pc = "remove" THEN "st_read" ELSE "ff_bc"]
    /\ UNCHANGED <<req, child, dir, gen, meta, events, stderr_log, conclusion,
                   usage, bus, now, budget, hist,
                   archive, native_cache, view>>

\* 2711-2720 and 2201-2204: broadcast_run_finished.
broadcast_run_finished(r) ==
    /\ run[r].pc \in {"finished", "ff_bc"}
    /\ broadcast_event(RunFinished("runner", r, now, run[r].success, run[r].exit_code))
    /\ run' = [run EXCEPT ![r].pc = "done"]
    /\ UNCHANGED <<req, child, runs, dir, gen, meta, events, stderr_log, conclusion,
                   usage, now, budget, hist,
                   archive, native_cache, view>>

\* fail_and_finish 2185: stderr.log is replaced by the error text.
fail_write_stderr(r) ==
    /\ run[r].pc = "ff_stderr"
    /\ stderr_log' = IF dir THEN <<[by |-> r, n |-> 0]>> ELSE stderr_log
    /\ run' = [run EXCEPT ![r].pc = "ff_concl"]
    /\ UNCHANGED <<req, child, runs, dir, gen, meta, events, conclusion,
                   usage, bus, now, budget, hist,
                   archive, native_cache, view>>

\* fail_and_finish 2186-2188: conclusion.md is replaced by "# Error ...".
fail_write_conclusion(r) ==
    /\ run[r].pc = "ff_concl"
    /\ conclusion' = IF dir THEN [kind |-> "error", text |-> <<>>] ELSE conclusion
    /\ run' = [run EXCEPT ![r].pc = "ff_mread"]
    /\ UNCHANGED <<req, child, runs, dir, gen, meta, events, stderr_log,
                   usage, bus, now, budget, hist,
                   archive, native_cache, view>>

\* ------------------------------------------------------------ stream_stderr
\* 2135-2143: stderr.log is opened (created) for append, or the task ends.
stderr_open(r) ==
    /\ run[r].stderr_fd = 0
    /\ run' = [run EXCEPT ![r].stderr_fd = IF dir THEN gen ELSE -2]
    /\ UNCHANGED <<req, child, runs, dir, gen, meta, events, stderr_log, conclusion,
                   usage, bus, now, budget, hist,
                   archive, native_cache, view>>

\* 2146-2148: a line of the child's stderr is appended.
stderr_line(r) ==
    /\ run[r].stderr_fd > 0
    /\ run[r].stderr_pend = 0
    /\ child[r] = "running"
    /\ budget.stderr > 0
    /\ budget' = [budget EXCEPT !.stderr = @ - 1]
    /\ stderr_log' = IF run[r].stderr_fd = gen /\ dir
                     THEN Append(stderr_log, [by |-> r, n |-> 1])
                     ELSE stderr_log
    /\ run' = [run EXCEPT ![r].stderr_pend = 1]
    /\ UNCHANGED <<req, child, runs, dir, gen, meta, events, conclusion,
                   usage, bus, now, hist,
                   archive, native_cache, view>>

\* 2149-2159: and published with a timestamp of its own.
stderr_emit(r) ==
    /\ run[r].stderr_pend = 1
    /\ broadcast_event(UiEvent("stderr", "stderr", r, 1, now, ""))
    /\ run' = [run EXCEPT ![r].stderr_pend = 0]
    /\ UNCHANGED <<req, child, runs, dir, gen, meta, events, stderr_log, conclusion,
                   usage, now, budget, hist,
                   archive, native_cache, view>>

\* ------------------------------------------------------------ list_sessions
\* list_sessions that leaves a local entry as it is.
merge_keep_local(local, native) == local

\* 1057-1068: and_modify, the native session merged into the local entry.
merge_native(local, native) ==
    [local EXCEPT !.cwd = IF @ = "" THEN native.cwd ELSE @,
                  !.created_at = IF native.created_at < @ THEN native.created_at ELSE @,
                  !.last_used_at = Max(@, native.last_used_at)]

\* 969-1075 for the id of the model: the entry listed for it, NoMeta for none.
ListEntry ==
    LET local == IF dir THEN meta ELSE NoMeta
        c == ensure_native_cache(native_cache, archive, now)
        native == native_session_meta(NativeSeen(c, archive), now)
    IN IF native = NoMeta THEN local
       ELSE IF local = NoMeta THEN native
       ELSE merge_native(local, native)

list_sessions ==
    /\ view.list.pc = "idle"
    /\ view' = [view EXCEPT !.list = [pc |-> "done", entry |-> ListEntry]]
    /\ native_cache' = ensure_native_cache(native_cache, archive, now)
    /\ UNCHANGED <<req, run, child, runs, dir, gen, meta, events, stderr_log, conclusion,
                   usage, bus, now, archive, budget, hist>>

\* GET /api/sessions as one of the requests of a scenario.
list_request(q) ==
    /\ req[q].pc = "l_list"
    /\ view' = [view EXCEPT !.list = [pc |-> "done", entry |-> ListEntry]]
    /\ native_cache' = ensure_native_cache(native_cache, archive, now)
    /\ Finish(q, 200)
    /\ UNCHANGED <<run, child, runs, dir, gen, meta, events, stderr_log, conclusion,
                   usage, bus, now, archive, budget, hist>>

\* ----------------------------------------------------------- stream_session
\* stream_session that takes the tail parameter as it comes.
tail_unclamped(n) == IF n < 0 THEN TailDefault ELSE n

\* 1761-1765: the tail parameter (-1: none given).
tail_of(n) ==
    IF n = 0 THEN 0
    ELSE IF n < 0 THEN TailDefault
    ELSE Max(TailMin, Min(n, TailMax))

\* 445-462: the last max_lines lines of a file, each with its place in the file.
read_tail_lines(f, max_lines) ==
    LET from == Max(1, Len(f) - max_lines + 1)
    IN IF max_lines = 0 THEN <<>>
       ELSE [i \in 1..(Len(f) - from + 1) |-> [at |-> from + i - 1, line |-> f[from + i - 1]]]

\* 1774-1801: the lines of the native rollouts k..Len(paths), as UiEvents; a
\* line without timestamp is stamped now_ms().
RECURSIVE NativeBacklog(_, _, _)
NativeBacklog(paths, k, tail) ==
    IF k > Len(paths) THEN <<>>
    ELSE LET tl == read_tail_lines(paths[k].lines, tail)
         IN [i \in 1..Len(tl) |->
                UiEvent("native", "stdout", k, tl[i].at,
                        IF tl[i].line >= 0 THEN tl[i].line ELSE now, "")]
            \o NativeBacklog(paths, k + 1, tail)

\* 1806-1827: the lines of events.jsonl.
EventsBacklog(tail) ==
    LET tl == read_tail_lines(events, tail)
    IN [i \in 1..Len(tl) |->
           UiEvent("events", "stdout", 0, tl[i].at,
                   IF tl[i].line.ts >= 0 THEN tl[i].line.ts ELSE now, tl[i].line.m)]

\* 1830-1843: the lines of stderr.log, all stamped now_ms().
StderrBacklog(tail) ==
    LET tl == read_tail_lines(stderr_log, tail)
    IN [i \in 1..Len(tl) |-> UiEvent("stderr", "stderr", 0, tl[i].at, now, "")]

KeyLess(a, b) == a.ts < b.ts \/ (a.ts = b.ts /\ a.seq < b.seq)

\* 1847: sort_by_key on (ts, seq); seq is unique, so the order is total.
sort_by_key(S) ==
    LET n == Len(S)
        rank == [i \in 1..n |-> Cardinality({j \in 1..n : KeyLess(S[j], S[i])}) + 1]
    IN [p \in 1..n |-> S[CHOOSE i \in 1..n : rank[i] = p]]

\* 1769-1851: the backlog of a connection opened with the (clamped) tail; seq
\* counts the lines in the order they are read.
Backlog(tail) ==
    LET read == IF tail = 0 THEN <<>>
                ELSE NativeBacklog(NativeSeen(ensure_native_cache(native_cache, archive, now),
                                              archive).paths, 1, tail)
                     \o (IF dir THEN EventsBacklog(tail) \o StderrBacklog(tail) ELSE <<>>)
        keyed == [i \in 1..Len(read) |-> [ts |-> read[i].ts, seq |-> i - 1, evt |-> read[i]]]
        sorted == sort_by_key(keyed)
        n == Len(sorted)
    IN IF tail > 0 /\ n > tail THEN SubSeq(sorted, n - tail + 1, n) ELSE sorted

\* 1743-1851: the handler up to the subscription: 404 when the id is in
\* neither store, else the backlog is read from the files.
stream_open(n) ==
    /\ view.conn.pc = "idle"
    /\ native_cache' = ensure_native_cache(native_cache, archive, now)
    /\ view' = [view EXCEPT !.conn =
                   IF ~dir /\ native_cache'.paths = <<>>
                   THEN [NoConn EXCEPT !.pc = "closed", !.tail = n, !.code = 404]
                   ELSE [NoConn EXCEPT !.pc = "subscribe", !.tail = n, !.code = 200,
                                       !.backlog = Backlog(tail_of(n))]]
    /\ UNCHANGED <<req, run, child, runs, dir, gen, meta, events, stderr_log, conclusion,
                   usage, bus, now, archive, budget, hist>>

\* 1853-1854: ensure_stream and tx.subscribe(), after the backlog was read: a
\* receiver of what is published from now on.
subscribe ==
    /\ view.conn.pc = "subscribe"
    /\ view' = [view EXCEPT !.conn.pc = "open", !.conn.rx = Len(bus)]
    /\ UNCHANGED <<req, run, child, runs, dir, gen, meta, events, stderr_log, conclusion,
                   usage, bus, now, archive, native_cache, budget, hist>>

\* 1857-1861: the backlog is yielded, one event at a time.
deliver_backlog ==
    /\ view.conn.pc = "open"
    /\ view.conn.next <= Len(view.conn.backlog)
    /\ view' = [view EXCEPT !.conn.next = @ + 1,
                            !.conn.out = Append(@, [kind |-> "backlog",
                                                    evt |-> view.conn.backlog[view.conn.next].evt])]
    /\ UNCHANGED <<req, run, child, runs, dir, gen, meta, events, stderr_log, conclusion,
                   usage, bus, now, archive, native_cache, budget, hist>>

\* 1863-1867: then whatever the receiver gets. The channel keeps the last
\* BusCapacity messages: a receiver further behind gets Lagged, which the loop
\* skips (`let Ok(msg) = item else { continue }`), and goes on with the oldest
\* message still kept.
deliver_live ==
    /\ view.conn.pc = "open"
    /\ view.conn.next > Len(view.conn.backlog)
    /\ view.conn.rx < Len(bus)
    /\ view' = IF Len(bus) - view.conn.rx > BusCapacity
               THEN [view EXCEPT !.conn.rx = Len(bus) - BusCapacity]
               ELSE [view EXCEPT !.conn.rx = @ + 1,
                                 !.conn.out = Append(@, [kind |-> "live",
                                                         evt |-> bus[view.conn.rx + 1]])]
    /\ UNCHANGED <<req, run, child, runs, dir, gen, meta, events, stderr_log, conclusion,
                   usage, bus, now, archive, native_cache, budget, hist>>

\* Some task publishes on the session's bus while the connection is served.
publish ==
    /\ Len(bus) < MaxLive
    /\ broadcast_event(UiEvent("runner", "stdout", 1, Len(bus) + 1, now, "x"))
    /\ UNCHANGED <<req, run, child, runs, dir, gen, meta, events, stderr_log, conclusion,
                   usage, now, archive, native_cache, view, budget, hist>>

\* ------------------------------------------------------------ the system
Handler(q) ==
    \/ start_check(q) \/ start_mkdir(q) \/ start_write_meta(q)
    \/ continue_check(q) \/ continue_mkdir(q) \/ continue_read_meta(q)
    \/ continue_write_meta(q)
    \/ append_prompt(q) \/ broadcast_prompt(q) \/ resolve_codex_executable(q)
    \/ insert_handle(q)
    \/ stop_take(q) \/ stop_send(q) \/ stop_signal(q) \/ stop_remove(q)
    \/ stop_read_meta(q) \/ stop_write_meta(q) \/ stop_broadcast(q)
    \/ delete_dir(q) \/ delete_native(q)

Runner(r) ==
    \/ spawn(r) \/ record_pid(r) \/ open_events(r) \/ send(r)
    \/ read_cancel(r) \/ read_eof(r)
    \/ persist(r) \/ emit(r)
    \/ runner_read_meta(r) \/ runner_write_meta(r)
    \/ drain_metrics(r) \/ finalize(r) \/ final_metrics(r) \/ append_usage_record(r)
    \/ write_conclusion(r) \/ reap(r) \/ remove_handle(r) \/ broadcast_run_finished(r)
    \/ fail_write_stderr(r) \/ fail_write_conclusion(r)

StderrTask(r) == stderr_open(r) \/ stderr_emit(r)

Child(r) ==
    \/ \E res \in Responses(run[r].phase) : read_response(r, res)
    \/ \E n \in Notifs \cup AgentNotifs : read_notification(r, n)
    \/ read_skipped(r) \/ read_bad_json(r)
    \/ stderr_line(r)
    \/ child_exit(r)
    \/ sigkill_timer(r)

Next ==
    \/ \E q \in Req, k \in Kinds : Issue(q, k)
    \/ \E q \in Req : Handler(q)
    \/ \E r \in Req : Runner(r)
    \/ \E r \in Req : StderrTask(r)
    \/ \E r \in Req : Child(r)
    \/ Tick

Spec == Init /\ [][Next]_vars

\* Tokio runs every task that is ready: a handler or a runner that can take a
\* step takes it, and a timer that was set fires. Nothing is assumed of the
\* child: it may stay silent forever.
Fairness ==
    /\ \A q \in Req : WF_vars(Handler(q))
    /\ \A r \in Req : WF_vars(Runner(r))
    /\ \A r \in Req : WF_vars(StderrTask(r))
    /\ \A r \in Req : WF_vars(sigkill_timer(r))

\* The scenarios of the liveness check: every request kind, a stop racing a
\* turn that is starting, talking to its child or finishing, and racing
\* another stop.
FairScenarios ==
    {Scenario(<<"start", "stop", "stop">>, "empty", 0, 0, 0, 1, {"t1"}, Ends),
     Scenario(<<"continue", "stop">>, "done", 1, 0, MaxStderr, 0, {"t1"}, {"completed"}),
     Scenario(<<"continue", "delete">>, "done", 0, 0, 0, 0, {"t1"}, {"completed"}),
     Scenario(<<"continue">>, "done", 0, MaxTicks, 0, 0, {"t1"}, {"completed"})}

FairInit == \E sc \in FairScenarios : InitOf(sc)

FairSpec == FairInit /\ [][Next]_vars /\ Fairness

\* ------------------------------------------- all requests, and I/O faults
\* The scenarios above, and: a turn racing touch and rename; a delete followed
\* by listings, of an id in both stores and of a native thread that was
\* renamed; a native thread continued from another cwd, and one written by
\* `codex exec`; a turn that streams agent messages; requests that are
\* rejected, among them a continue of an id that is in neither store, followed
\* by a start with that id; a failing append to the event log; a client
\* streaming a turn.
OpsScenarios ==
    Scenarios
    \cup {Scenario(<<"continue", "touch", "rename">>, "done", 0, 0, 0, 0, {"t2"}, {"completed"}),
          Scenario(<<"delete", "list", "touch">>, "both", 0, MaxTicks, 0, 0, {"t1"}, {"completed"}),
          Scenario(<<"rename", "delete", "list">>, "native", 0, MaxTicks, 0, 0, {"t1"},
                   {"completed"}),
          Scenario(<<"rename", "rename", "rename">>, "native", 0, 0, 0, 0, {"t1"},
                   {"completed"}),
          Scenario(<<"rename", "touch", "list">>, "empty", 0, 0, 0, 0, {"t1"}, {"completed"}),
          Scenario(<<"continue", "start">>, "empty", 0, 0, 0, 0, {"t1"}, {"completed"}),
          [Scenario(<<"continue">>, "native", 0, 1, 0, 0, {"t1"}, {"completed"})
              EXCEPT !.cwd = "/req"],
          Scenario(<<"continue">>, "exec", 0, 0, 0, 0, {"t1"}, {"completed"}),
          [Scenario(<<"continue">>, "done", MaxNotifs + 1, 0, 0, 0, {"t1"}, {"completed"})
              EXCEPT !.items = "agent"],
          [Scenario(<<"start", "continue">>, "done", 0, 0, 0, 0, {"t1"}, {"completed"})
              EXCEPT !.bad = 1],
          [Scenario(<<"continue">>, "done", 1, 0, 0, 0, {"t1"}, {"completed"})
              EXCEPT !.io = 1],
          [Scenario(<<"continue">>, "done", 1, 0, 0, 0, {"t1"}, {"completed"})
              EXCEPT !.sse = 1]}

OpsInit == \E sc \in OpsScenarios : InitOf(sc)

OpsHandler(q) ==
    \/ reject_bad_request(q)
    \/ touch_read(q) \/ touch_write(q)
    \/ rename_read(q) \/ rename_write(q) \/ rename_native(q)
    \/ list_request(q)

\* A client of the stream: it connects once, with no tail parameter or with
\* tail=0, and reads when it reads.
Client ==
    \/ budget.sse > 0 /\ \E n \in {-1, 0} : stream_open(n)
    \/ subscribe
    \/ deliver_backlog
    \/ deliver_live

OpsNext ==
    \/ Next
    \/ \E q \in Req : OpsHandler(q)
    \/ \E r \in Req : persist_failed(r)
    \/ Client

OpsSpec == OpsInit /\ [][OpsNext]_vars

\* --------------------------------------------------------- the query side
\* GET /api/sessions and GET /api/sessions/:id/stream over a store nobody
\* writes: Init draws what is on disk, the requests read it.
LocalMetas ==
    {[NoMeta EXCEPT !.status = "done", !.thread = "t1", !.created_at = c[1],
                    !.last_used_at = c[2], !.cwd = w] :
        c \in {<<10, 30>>, <<30, 50>>}, w \in {"", "/l"}}

\* Two rollouts of the id; the derived metadata is that of the later one.
Archives(lines) ==
    {[paths |-> <<Rollout(m[1], "", "codex_cli", "cli", "", lines),
                  Rollout(m[2], w, o[1], o[2], tp[2], lines)>>,
      title |-> tp[1], order |-> <<>>] :
        m \in {<<20, 40>>, <<5, 60>>}, w \in {"", "/n"},
        o \in {<<"codex_cli", "cli">>, <<"codex_exec", "cli">>, <<"codex_cli", "exec">>},
        tp \in {<<"T", "">>, <<"", "p">>, <<"", "">>, <<"", "# AGENTS.md">>}}

\* Two rollouts of the id of which the one with the earlier name was written
\* to last.
TouchedArchive ==
    [paths |-> <<Rollout(40, "", "codex_cli", "cli", "", <<>>),
                 Rollout(20, "/n", "codex_cli", "cli", "p", <<>>)>>,
     title |-> "", order |-> <<>>]

\* n lines with the timestamps from, from + step, ...
Stamps(n, from, step) == [i \in 1..n |-> from + (i - 1) * step]

EventLines(n) == [i \in 1..n |-> EventLine("runner", 1, i, 101 + 2 * i, "x")]

\* The same, but the first line carries no _ts_ms.
EventLinesUnstamped(n) == [i \in 1..n |-> IF i = 1 THEN EventLine("runner", 1, 1, -1, "x")
                                           ELSE EventLines(n)[i]]

StderrLines(n) == [i \in 1..n |-> [by |-> 1, n |-> i]]

ReadStore(d, m, e, s, a) == [dir |-> d, meta |-> m, events |-> e, stderr_log |-> s,
                             archive |-> a]

ReadStores ==
    \* every combination of local and native metadata, short files
    {ReadStore(TRUE, m, EventLines(2), StderrLines(1), a) :
        m \in LocalMetas, a \in Archives(Stamps(2, 100, 2)) \cup {NoArchive}}
    \cup {ReadStore(FALSE, NoMeta, <<>>, <<>>, a) :
              a \in Archives(Stamps(2, 100, 2)) \cup {NoArchive}}
    \* the rollouts out of order, alone and under local metadata
    \cup {ReadStore(FALSE, NoMeta, <<>>, <<>>, TouchedArchive),
          ReadStore(TRUE, CHOOSE m \in LocalMetas : m.created_at = 30 /\ m.cwd = "",
                    <<>>, <<>>, TouchedArchive)}
    \* short and long files, one choice of metadata
    \cup {ReadStore(TRUE, CHOOSE m \in LocalMetas : m.created_at = 10 /\ m.cwd = "",
                    f[1], f[2],
                    [paths |-> <<Rollout(20, "/n", "codex_cli", "cli", "p", f[3])>>,
                     title |-> "", order |-> <<>>]) :
              f \in {<<EventLines(3), StderrLines(2), Stamps(2, 100, 2)>>,
                     <<EventLines(MaxLines), <<>>, Stamps(2, 100, 2)>>,
                     <<EventLines(MaxLines), StderrLines(MaxLines), Stamps(MaxLines, 100, 2)>>,
                     <<EventLinesUnstamped(MaxLines), StderrLines(2), Stamps(MaxLines, 100, 2)>>,
                     <<<<>>, <<>>, Stamps(MaxLines, 100, 2)>>}}

Tails == {-1, 0, 10, MaxLines, 100000}

\* now_ms() while the requests are served: later than every stored timestamp.
ReadClock == 1000

ReadInit ==
    \E st \in ReadStores :
        /\ Idle
        /\ budget = Scenario(<<>>, "empty", 0, 0, 0, 0, {}, {})
        /\ now = ReadClock
        /\ dir = st.dir
        /\ meta = st.meta
        /\ events = st.events
        /\ stderr_log = st.stderr_log
        /\ archive = st.archive
        /\ native_cache = [built_at_ms |-> ReadClock, paths |-> st.archive.paths]

ReadNext ==
    \/ list_sessions
    \/ \E n \in Tails : stream_open(n)
    \/ subscribe
    \/ deliver_backlog
    \/ deliver_live
    \/ publish

ReadSpec == ReadInit /\ [][ReadNext]_vars

\* ------------------------------------------------- metadata of a rollout
\* The first 16 KiB of a rollout file as the scan and the parse see it: the
\* type of the first JSON object, the fields of its payload in the order they
\* are written, and the fields of the lines after it. A value is a string, or
\* Structured for a JSON value that is not a string.
Structured == "{}"

Field(k, v) == [key |-> k, val |-> v]

Fields == {Field("cwd", "/w"), Field("originator", "codex_cli"),
           Field("originator", "codex_exec"), Field("source", "exec"),
           Field("source", Structured), Field("base_instructions", Structured)}

MaxFields == 4

SeqsOf(S, n) == UNION {[1..k -> S] : k \in 0..n}

RolloutHeads ==
    [ty : {"session_meta", "event_msg"},
     payload : SeqsOf(Fields, MaxFields),
     more : {<<>>, <<Field("cwd", "/x")>>, <<Field("originator", "codex_tui")>>}]

\* 576-583 read_prefix: the text of the prefix, as its fields in order.
read_prefix(h) == h.payload \o h.more

\* 585-621 extract_json_string_field: the value after the first `"key":"` of
\* the text, "" for None. A value that is not a string does not match.
extract_json_string_field(prefix, key) ==
    LET hits == {i \in 1..Len(prefix) : prefix[i].key = key /\ prefix[i].val # Structured}
    IN IF hits = {} THEN ""
       ELSE prefix[CHOOSE i \in hits : \A j \in hits : i <= j].val

\* 627-635 extract_session_meta_field_from_rollout: the prefix is cut at the
\* first `"base_instructions"`.
extract_session_meta_field_from_rollout(h, key) ==
    LET text == read_prefix(h)
        cuts == {i \in 1..Len(text) : text[i].key = "base_instructions"}
        clipped == IF cuts = {} THEN text
                   ELSE SubSeq(text, 1, (CHOOSE i \in cuts : \A j \in cuts : i <= j) - 1)
    IN extract_json_string_field(clipped, key)

NoTriplet == [cwd |-> "", originator |-> "", source |-> ""]

\* 651-662 and 669-670: RolloutMetaLine::deserialize on the first JSON object.
\* The derived Deserialize fails on a field given twice and on a value that is
\* not a string; fields it does not know are skipped.
RolloutMetaLine(h) ==
    LET Of(k) == {i \in 1..Len(h.payload) : h.payload[i].key = k}
        Known == {"cwd", "originator", "source"}
        Get(k) == IF Of(k) = {} THEN "" ELSE h.payload[CHOOSE i \in Of(k) : TRUE].val
    IN IF \E k \in Known : Cardinality(Of(k)) > 1 \/ Get(k) = Structured
       THEN [ok |-> FALSE, ty |-> "", payload |-> NoTriplet]
       ELSE [ok |-> TRUE, ty |-> h.ty,
             payload |-> [cwd |-> Get("cwd"), originator |-> Get("originator"),
                          source |-> Get("source")]]

\* The slow path taken for whatever the first JSON object is.
extract_session_meta_triplet_any_type(h) ==
    LET scan == [k \in {"cwd", "originator", "source"} |->
                    extract_session_meta_field_from_rollout(h, k)]
        line == RolloutMetaLine(h)
    IN IF scan.originator # "" \/ ~line.ok THEN scan
       ELSE [k \in {"cwd", "originator", "source"} |->
                IF scan[k] # "" THEN scan[k] ELSE line.payload[k]]

\* 637-691 extract_session_meta_triplet_from_rollout.
extract_session_meta_triplet_from_rollout(h) ==
    LET scan == [k \in {"cwd", "originator", "source"} |->
                    extract_session_meta_field_from_rollout(h, k)]
        line == RolloutMetaLine(h)
    IN IF scan.originator # "" THEN scan
       ELSE IF line.ok /\ line.ty = "session_meta"
       THEN [k \in {"cwd", "originator", "source"} |->
                IF scan[k] # "" THEN scan[k] ELSE line.payload[k]]
       ELSE scan

\* The lines in the last 96 KiB of a rollout file as find_last_prompt_from_rollout
\* tells them apart: an empty line, a line that is not JSON, an object of
\* another type (or a message of another role), a user_message event with its
\* message, a user message item with the text of its content, and a user
\* message item with no content field.
TailLine(k, t) == [kind |-> k, text |-> t]

TailLines ==
    {TailLine("blank", ""), TailLine("not_json", ""), TailLine("other", ""),
     TailLine("event_msg", "p"), TailLine("event_msg", "# AGENTS.md"),
     TailLine("response_item", "q"), TailLine("no_content", "")}

MaxTail == 3

\* A find_last_prompt_from_rollout that skips the lines it cannot use.
find_last_prompt_skipping(tail) ==
    LET shown == {i \in 1..Len(tail) :
                     /\ tail[i].kind \in {"event_msg", "response_item"}
                     /\ should_show_rollout_user_text(tail[i].text)}
    IN IF shown = {} THEN ""
       ELSE tail[CHOOSE i \in shown : \A j \in shown : j <= i].text

\* 831-879 find_last_prompt_from_rollout: the lines are gone through from the
\* last one back; `.ok()?` (838) and `payload.get("content")?` (869) return
\* None from the function. "" for None.
RECURSIVE find_last_prompt_from_rollout(_)
find_last_prompt_from_rollout(tail) ==
    IF tail = <<>> THEN ""
    ELSE LET l == tail[Len(tail)]
             before == SubSeq(tail, 1, Len(tail) - 1)
         IN CASE l.kind \in {"blank", "other"} -> find_last_prompt_from_rollout(before)
              [] l.kind \in {"not_json", "no_content"} -> ""
              [] OTHER -> IF should_show_rollout_user_text(l.text) THEN l.text
                          ELSE find_last_prompt_from_rollout(before)

\* A rollout file nobody has read yet.
RawRollout(h, t) ==
    [mtime |-> 1, cwd |-> "", originator |-> "", source |-> "", last_prompt |-> "",
     lines |-> <<>>, head |-> h, tail |-> t]

\* The files and thread titles of the id: every head under one tail, and every
\* tail under one head, with and without a title given by the user.
RawArchives ==
    {[paths |-> <<RawRollout(h, <<TailLine("event_msg", "p")>>)>>, title |-> "",
      order |-> <<>>] : h \in RolloutHeads}
    \cup {[paths |-> <<RawRollout([ty |-> "session_meta",
                                   payload |-> <<Field("cwd", "/w"),
                                                 Field("originator", "codex_cli")>>,
                                   more |-> <<>>], t)>>,
           title |-> ti, order |-> <<>>] :
              t \in SeqsOf(TailLines, MaxTail), ti \in {"", "T"}}

MetaInit ==
    \E a \in RawArchives :
        /\ Idle
        /\ budget = Scenario(<<>>, "native", 0, 0, 0, 0, {}, {})
        /\ now = ReadClock
        /\ dir = FALSE
        /\ meta = NoMeta
        /\ events = <<>>
        /\ stderr_log = <<>>
        /\ archive = a
        /\ native_cache = NoCache

\* 881-913 get_or_compute_native_derived with nothing cached for the id: the
\* triplet and the last prompt of the latest rollout are extracted and kept.
compute_native_derived ==
    /\ native_cache.built_at_ms = 0
    /\ LET t == extract_session_meta_triplet_from_rollout(archive.paths[1].head)
       IN archive' = [archive EXCEPT !.paths[1].cwd = t.cwd,
                                     !.paths[1].originator = t.originator,
                                     !.paths[1].source = t.source,
                                     !.paths[1].last_prompt =
                                         find_last_prompt_from_rollout(archive.paths[1].tail)]
    /\ native_cache' = [built_at_ms |-> now, paths |-> archive'.paths]
    /\ UNCHANGED <<req, run, child, runs, dir, gen, meta, events, stderr_log, conclusion,
                   usage, bus, now, view, budget, hist>>

\* list_sessions derives the metadata of the thread (1012) before it looks at
\* its title.
MetaNext ==
    \/ compute_native_derived
    \/ native_cache.built_at_ms > 0 /\ list_sessions

MetaSpec == MetaInit /\ [][MetaNext]_vars

\* ------------------------------------------------------ token usage
\* A turn in its drain that has published the metrics of 400 tokens of 1000
\* just now, so that the updates that follow within 5 s only replace the
\* snapshot (2605-2607).
Draining ==
    [NoRun EXCEPT !.pc = "read", !.phase = "drain", !.thread_id = "t1", !.eff = "t1",
                  !.turn_id = "u1", !.next_id = 4, !.fd = 1, !.stderr_fd = 1,
                  !.snapshot = <<1000, 400, 60>>, !.last_metrics_emit_ms = ReadClock,
                  !.last_metrics_emitted_pct = 60]

\* The requests the runner has written, and the update it has received.
DrainingSent ==
    <<[id |-> 1, method |-> "initialize", thread |-> "", turn |-> ""],
      [id |-> 2, method |-> "thread/resume", thread |-> "t1", turn |-> ""],
      [id |-> 3, method |-> "turn/start", thread |-> "t1", turn |-> ""]>>

UsageInit ==
    /\ view = NoView
    /\ req = [q \in Req |-> IF q = 1
                             THEN [NoReq EXCEPT !.kind = "continue", !.pc = "done",
                                                !.code = 200]
                             ELSE NoReq]
    /\ run = [q \in Req |-> IF q = 1 THEN Draining ELSE NoRun]
    /\ child = [q \in Req |-> IF q = 1 THEN "running" ELSE "none"]
    /\ runs = [owner |-> 1, cancel |-> TRUE, pid |-> 1]
    /\ gen = 1
    /\ conclusion = NoConclusion
    /\ usage = <<>>
    /\ bus = <<ContextMetrics(1, ReadClock, 60)>>
    /\ hist = [received |-> [q \in Req |->
                                IF q = 1
                                THEN <<[Notif("thread/tokenUsage/updated")
                                           EXCEPT !.w = 1000, !.t = 400]>>
                                ELSE <<>>],
               appended |-> [q \in Req |-> <<>>],
               sent |-> [q \in Req |-> IF q = 1 THEN DrainingSent ELSE <<>>],
               sigint |-> [q \in Req |-> 0],
               timer |-> [q \in Req |-> FALSE],
               stray |-> FALSE,
               ended |-> [q \in Req |-> ""],
               launch |-> [q \in Req |-> ""],
               lost |-> [q \in Req |-> <<>>]]
    /\ budget = [Scenario(<<>>, "done", MaxNotifs, 0, 0, 0, {"t1"}, {"completed"})
                    EXCEPT !.items = "usage"]
    /\ now = ReadClock
    /\ dir = TRUE
    /\ meta = [StoredMeta("done") EXCEPT !.status = "running", !.ctx = <<1000, 400, 60>>]
    /\ events = <<>>
    /\ stderr_log = <<>>
    /\ archive = NoArchive
    /\ native_cache = NoCache

UsageNext == \E n \in UsageNotifs : read_notification(1, n)

UsageSpec == UsageInit /\ [][UsageNext]_vars

\* ------------------------------------------------------------ properties
\* A runner is live from the moment its task is spawned until it returns.
Live(r) == run[r].pc \notin {"none", "done"}

Quiescent == /\ \A q \in Req : req[q].pc \in {"idle", "done"}
             /\ \A r \in Req : ~Live(r)

\* C1: at most one turn runner of the session is live at any time, whatever the
\* interleaving of start, continue, stop and delete requests.
C1_AtMostOneLiveRunner == Cardinality({r \in Req : Live(r)}) <= 1

\* Two runners of the session, each with a running agent child, both draining
\* a turn.
C1_TwoRunnersDraining ==
    \E r1, r2 \in Req :
        /\ r1 # r2
        /\ \A r \in {r1, r2} :
              run[r].phase = "drain" /\ run[r].pc = "read" /\ child[r] = "running"

\* C2: in every reachable state, a session whose stored status is running has a
\* run handle.
C2_RunningHasHandle == meta.status = "running" => runs.owner # 0

\* Nothing is in flight any more, the stored status is running and there is no
\* handle: the state a failed executable lookup leaves behind.
C2_OrphanRunning ==
    /\ Quiescent
    /\ meta.status = "running"
    /\ runs.owner = 0

\* C3: a stop that took the cancel sender of a turn leads, under fair
\* scheduling and whatever the child does, to the turn's codex_run_finished on
\* the bus, its child gone and reaped, and its handle out of the table.
StopTaken(r) == \E q \in Req : req[q].pc = "t_send" /\ req[q].tx = r

TurnFinished(r) ==
    /\ run[r].pc = "done"
    /\ child[r] \in {"none", "reaped"}
    /\ runs.owner # r
    /\ \E i \in 1..Len(bus) :
          bus[i].ev = "codex_run_finished" /\ bus[i].src = "runner" /\ bus[i].by = r

C3_StopLeadsToFinished == \A r \in Req : StopTaken(r) ~> TurnFinished(r)

\* A stop has taken the sender of a turn whose child is running and that is
\* blocked reading from it.
C3_StopOnBlockedTurn ==
    \E r \in Req : StopTaken(r) /\ run[r].pc = "read" /\ child[r] = "running"

\* C4: once a stop took the cancel sender of a turn, a further stop (one that
\* finds the handle without sender) changes nothing: no metadata write, no
\* codex_run_finished, no further signal to a child that was signalled.
FurtherStop(q) ==
    /\ req[q].kind = "stop"
    /\ req[q].pc \in {"t_send", "t_signal"}
    /\ req[q].tx = 0

C4_StopIdempotent ==
    [][\A q \in Req :
          (FurtherStop(q) /\ req'[q] # req[q])
              => /\ meta' = meta
                 /\ bus' = bus
                 /\ \A r \in Req : hist.sigint[r] >= 1 => hist'.sigint[r] = hist.sigint[r]]_vars

\* A stop has returned after signalling the child once, and a second stop,
\* which found the handle without sender, is about to signal the recorded pid.
C4_SecondStopSignals ==
    \E q0, q \in Req :
        /\ req[q0].kind = "stop" /\ req[q0].pc = "done"
        /\ FurtherStop(q) /\ req[q].pc = "t_signal" /\ req[q].pid # 0
        /\ hist.sigint[req[q].pid] = 1

\* The methods the specification says are neither persisted nor published.
OmittedMethods == {"thread/tokenUsage/updated", "account/rateLimits/updated",
                   "item/reasoning/summaryPartAdded"}

IsKept(n) == n.m \notin OmittedMethods

C6_BusOrderMatchesLog ==
    LET IsOut(i) == bus[i].ev = "codex_event" /\ bus[i].stream = "stdout"
        LineOf(a, i) == /\ events[a].src = bus[i].src /\ events[a].by = bus[i].by
                        /\ events[a].n = bus[i].n
    IN /\ \A i, j \in 1..Len(bus) :
             (i < j /\ IsOut(i) /\ IsOut(j)) =>
                 \A a, b \in 1..Len(events) : (LineOf(a, i) /\ LineOf(b, j)) => a < b
       /\ \A i \in 1..Len(bus) : IsOut(i) => bus[i].m \notin OmittedMethods

\* C7: consecutive codex_metrics messages of the session, the one of
\* finalization included, have non-decreasing ts_ms and are at least 5000 ms
\* apart or differ in the percentage left.
C7_MetricsSpaced ==
    LET IsMetrics(b) == b.ev = "codex_metrics"
        M == SelectSeq(bus, IsMetrics)
    IN \A i \in 1..(Len(M) - 1) :
          /\ M[i].ts <= M[i + 1].ts
          /\ M[i + 1].ts - M[i].ts >= 5000 \/ M[i].pct # M[i + 1].pct

\* One runner has published two codex_metrics: the one of the drain and the
\* one of finalization.
C7_DrainThenFinalMetrics ==
    \E r \in Req :
        /\ run[r].pc = "fm_usage"
        /\ run[r].last_metrics_emit_ms # 0
        /\ \A i \in 1..Len(bus) : bus[i].ev = "codex_metrics" => bus[i].by = r

\* The thread of the archive was written by `codex exec`.
ExecThread ==
    /\ archive.paths # <<>>
    /\ LET d == archive.paths[Len(archive.paths)]
       IN d.originator = "codex_exec" \/ d.source = "exec"

\* C8: a native thread with originator codex_exec or source exec adds nothing
\* to the listing (the id is listed as its local metadata says, or not at all)
\* and none of its rollout lines is in the backlog of a stream of the id.
C8_NativeHidingLaw ==
    ExecThread =>
        /\ view.list.pc = "done" => view.list.entry = (IF dir THEN meta ELSE NoMeta)
        /\ \A i \in 1..Len(view.conn.backlog) : view.conn.backlog[i].evt.src # "native"

\* The client of a stream of an exec thread has been sent one of its rollout
\* lines, while a listing taken of the same store does not show the thread.
C8_ExecThreadStreamed ==
    /\ ExecThread
    /\ ~dir
    /\ view.list.pc = "done" /\ view.list.entry = NoMeta
    /\ \E i \in 1..Len(view.conn.out) : view.conn.out[i].evt.src = "native"

\* What the native side of the id says: created when its first rollout was
\* last written, used when its last rollout was, in the cwd of the last.
NativeCreated == archive.paths[1].mtime
NativeUsed == archive.paths[Len(archive.paths)].mtime
NativeCwd == archive.paths[Len(archive.paths)].cwd

MergedEntry(e) ==
    /\ e.created_at = Min(meta.created_at, NativeCreated)
    /\ e.last_used_at = Max(meta.last_used_at, NativeUsed)
    /\ e.cwd = IF meta.cwd # "" THEN meta.cwd ELSE NativeCwd

\* The native thread is one the listing shows by itself: not an exec thread,
\* and titled, or with a last user prompt that is shown.
Listable ==
    /\ archive.paths # <<>>
    /\ ~ExecThread
    /\ \/ archive.title # ""
       \/ archive.paths[Len(archive.paths)].last_prompt
              \notin {"", "# AGENTS.md", "<environment_context", "<INSTRUCTIONS>"}

\* C9 as stated: for an id with a local metadata file and a native rollout, the
\* listed entry has created_at = min, last_used_at = max, cwd = local ?? native.
C9_MergeLaw ==
    (view.list.pc = "done" /\ dir /\ archive.paths # <<>>) => MergedEntry(view.list.entry)

\* C9, amended: the same for an id whose native thread is listable.
C9_MergeLawListable ==
    (view.list.pc = "done" /\ dir /\ Listable) => MergedEntry(view.list.entry)

\* A listing of an id in both stores whose native side is older, used later and
\* the only one with a cwd.
C9_NativeWidensLocal ==
    /\ view.list.pc = "done" /\ dir /\ Listable
    /\ NativeCreated < meta.created_at
    /\ NativeUsed > meta.last_used_at
    /\ meta.cwd = "" /\ NativeCwd # ""

\* The order in which a connection reads: the rollouts in order, then the event
\* log, then the stderr log, each from top to bottom.
ReadBefore(a, b) ==
    LET rank(x) == CASE x.src = "native" -> 0 [] x.src = "events" -> 1 [] OTHER -> 2
    IN \/ rank(a) < rank(b)
       \/ rank(a) = rank(b) /\ (a.by < b.by \/ (a.by = b.by /\ a.n < b.n))

\* b is more recent than a: by timestamp, ties broken by sequence.
Older(a, b) == a.ts < b.ts \/ (a.ts = b.ts /\ ReadBefore(a, b))

Stamp(ts) == IF ts >= 0 THEN ts ELSE now

\* The messages of the three sources, of each file the last t lines.
Stored(t) ==
    LET last(f) == {i \in 1..Len(f) : i > Len(f) - t}
    IN UNION {{UiEvent("native", "stdout", k, i, Stamp(archive.paths[k].lines[i]), "") :
                  i \in last(archive.paths[k].lines)} : k \in 1..Len(archive.paths)}
       \cup (IF dir
             THEN {UiEvent("events", "stdout", 0, i, Stamp(events[i].ts), events[i].m) :
                      i \in last(events)}
                  \cup {UiEvent("stderr", "stderr", 0, i, now, "") : i \in last(stderr_log)}
             ELSE {})

\* The connection's backlog is the t most recent of the messages in `from`, in
\* strictly increasing (timestamp, sequence) order, and the client gets it in
\* that order before anything live.
BacklogIs(t, from) ==
    LET c == view.conn
        B == c.backlog
        inB == {B[i].evt : i \in 1..Len(B)}
    IN /\ Len(B) = Min(t, Cardinality(from))
       /\ inB \subseteq from
       /\ \A i \in 1..(Len(B) - 1) : Older(B[i].evt, B[i + 1].evt) /\ KeyLess(B[i], B[i + 1])
       /\ \A x \in from \ inB : \A y \in inB : Older(x, y)
       /\ \A i \in 1..Len(c.out) :
             IF i <= Len(B) THEN c.out[i] = [kind |-> "backlog", evt |-> B[i].evt]
             ELSE c.out[i].kind = "live"

AllLines == Len(events) + Len(stderr_log) + MaxLines * Len(archive.paths)

\* C10 as stated: with tail = N > 0 the backlog is the N most recent messages
\* across the rollouts, the event log and the stderr log, strictly ordered by
\* (timestamp, sequence) and delivered before any live message.
C10_BacklogTailN ==
    (view.conn.pc = "open" /\ view.conn.tail > 0)
        => BacklogIs(view.conn.tail, Stored(AllLines))

\* C10, amended: the same with N clamped to [50, 50000] and, of each file, only
\* its last that-many lines.
C10_BacklogClampedTail ==
    (view.conn.pc = "open" /\ view.conn.tail > 0)
        => LET t == Max(50, Min(view.conn.tail, 50000))
           IN BacklogIs(t, Stored(t))

\* A connection opened with tail = 10 over more stored lines than the clamped
\* tail has delivered its whole backlog and then a live message.
C10_LongBacklogThenLive ==
    LET c == view.conn
    IN /\ c.pc = "open" /\ c.tail = 10
       /\ Cardinality(Stored(AllLines)) > Len(c.backlog)
       /\ Len(c.backlog) > 10
       /\ Len(c.out) > Len(c.backlog)

\* The runner has written the turn/start request to its child.
TurnStartSent(r) == \E i \in 1..Len(hist.sent[r]) : hist.sent[r][i].method = "turn/start"

\* C11: when thread/resume or thread/start gave a turn a thread id other than
\* the stored one, the stored thread id is that id from the moment turn/start
\* is sent on, the end of the turn included, whatever rename and touch requests
\* run beside it (as long as the session is not deleted).
C11_ThreadIdPersisted ==
    \A r \in Req :
        (/\ TurnStartSent(r)
         /\ run[r].eff # run[r].thread_id
         /\ dir /\ gen = 1 /\ meta # NoMeta)
            => meta.thread = run[r].eff

\* Everything has come to rest: the turn got thread id t2 and has finished, a
\* touch was answered 200, and the metadata names thread t1 again.
C11_TouchRevertedThreadId ==
    /\ Quiescent
    /\ \E r \in Req : run[r].pc = "done" /\ TurnStartSent(r) /\ run[r].eff = "t2"
    /\ \E q \in Req : req[q].kind = "touch" /\ req[q].code = 200
    /\ dir /\ meta.thread = "t1"

\* Some DELETE of the session has been answered 204.
DeleteReturned ==
    \E q \in Req : req[q].kind = "delete" /\ req[q].pc = "done" /\ req[q].code = 204

\* C12: for a session that was in the local store and in the native index, a
\* list request answered after a DELETE returned 204, with the local directory
\* and every rollout file gone, has no entry for the session, inside or outside
\* the 3 s window of the native cache and with or without a title.
C12_DeletedStaysUnlisted ==
    [][\A q \in Req :
          (/\ budget.store = "both"
           /\ req[q].kind = "list" /\ req[q].pc = "l_list" /\ req'[q].pc = "done"
           /\ DeleteReturned
           /\ ~dir /\ archive.paths = <<>>)
              => view'.list.entry = NoMeta]_vars

\* 2711-2720: the codex_run_finished messages that runner r published.
FinishedBy(r) ==
    {i \in 1..Len(bus) : bus[i].ev = "codex_run_finished" /\ bus[i].src = "runner"
                         /\ bus[i].by = r}

\* 2579-2640: what the way the drain ended makes of the turn.
DrainOutcome(e) ==
    CASE e = "completed" -> [success |-> TRUE, exit_code |-> -1, status |-> "done"]
      [] e = "interrupted" -> [success |-> FALSE, exit_code |-> -1, status |-> "error"]
      [] OTHER -> [success |-> FALSE, exit_code |-> 1, status |-> "error"]

\* The drain of runner r ended with no cancel, on turn/completed (with the
\* status e) or on the child's stdout closing.
DrainEnded(r, e) ==
    /\ run[r].phase = "drain"
    /\ hist.ended[r] = e
    /\ e \in {"completed", "interrupted", "failed", "closed"}

\* C13: when the drain ends with no cancel, a completed turn is reported with
\* success true and no exit code and stored as done; an interrupted one with
\* success false and no exit code; any other status, or stdout closing, with
\* success false and exit code 1; every outcome but success is stored as error.
C13_DrainOutcome ==
    /\ [](\A r \in Req, e \in {"completed", "interrupted", "failed", "closed"} :
             DrainEnded(r, e) =>
                /\ run[r].pc = "done" => FinishedBy(r) # {}
                /\ \A i \in FinishedBy(r) :
                      /\ bus[i].success = DrainOutcome(e).success
                      /\ bus[i].exit_code = DrainOutcome(e).exit_code)
    /\ [][\A r \in Req, e \in {"completed", "interrupted", "failed", "closed"} :
             (/\ DrainEnded(r, e)
              /\ run[r].pc = "st_write" /\ run'[r].pc = "finished" /\ dir)
                 => meta'.status = DrainOutcome(e).status]_vars

\* A turn that the agent itself reported as interrupted, with no stop request,
\* has been finalized: codex_run_finished is out and the status is error.
C13_InterruptedFinished ==
    \E r \in Req :
        /\ DrainEnded(r, "interrupted")
        /\ run[r].pc = "done" /\ ~run[r].cancelled
        /\ FinishedBy(r) # {}
        /\ dir /\ meta.status = "error"

\* C14: a turn finalized because its cancel signal fired, in whatever phase
\* (readiness wait, thread setup, turn/start, drain), is reported by
\* codex_run_finished with success false and no exit code, and the status the
\* runner stores for it is error.
C14_CancelOutcome ==
    /\ [](\A r \in Req :
             hist.ended[r] = "cancelled" =>
                /\ run[r].pc = "done" => FinishedBy(r) # {}
                /\ \A i \in FinishedBy(r) : ~bus[i].success /\ bus[i].exit_code = -1)
    /\ [][\A r \in Req :
             (/\ hist.ended[r] = "cancelled"
              /\ run[r].pc \in {"st_write", "ff_mwrite"} /\ run'[r].pc # run[r].pc
              /\ dir)
                 => meta'.status = "error"]_vars

\* A turn cancelled while it was draining has been finalized: its
\* codex_run_finished is out and the stored status is error.
C14_CancelledDrainFinished ==
    \E r \in Req :
        /\ hist.ended[r] = "cancelled" /\ run[r].cancelled /\ run[r].phase = "drain"
        /\ run[r].pc = "done"
        /\ FinishedBy(r) # {}
        /\ dir /\ meta.status = "error"

\* 2644-2652: the turn/interrupt requests runner r wrote to its child.
Interrupts(r) ==
    {i \in 1..Len(hist.sent[r]) : hist.sent[r][i].method = "turn/interrupt"}

\* 2642-2720: runner r is past the cancelled block of the finalization that
\* follows the drain; stdin is dropped in the step that leaves "reap".
PastDrain(r) ==
    /\ run[r].phase = "drain"
    /\ run[r].pc \in {"fm_read", "fm_write", "fm_bc", "fm_usage", "concl", "reap",
                      "remove", "st_read", "st_write", "finished", "done"}

\* C15: a turn cancelled in the drain with a retained turn id gets one
\* turn/interrupt with the effective thread id and that turn id, written before
\* stdin is closed; no turn/interrupt is written in any other case.
C15_InterruptLaw ==
    \A r \in Req :
        /\ (PastDrain(r) /\ run[r].cancelled /\ run[r].turn_id # "")
              => \E i \in Interrupts(r) :
                    /\ hist.sent[r][i].thread = run[r].eff
                    /\ hist.sent[r][i].turn = run[r].turn_id
        /\ Interrupts(r) # {}
              => /\ PastDrain(r) /\ run[r].cancelled /\ hist.ended[r] = "cancelled"
                 /\ run[r].eff # "" /\ run[r].turn_id # ""
                 /\ Cardinality(Interrupts(r)) = 1

\* A turn cancelled in the drain with its turn id known has written the
\* interrupt, closed stdin and finished.
C15_InterruptedBeforeClose ==
    \E r \in Req :
        /\ PastDrain(r) /\ run[r].pc = "done" /\ run[r].cancelled
        /\ run[r].turn_id # ""
        /\ Interrupts(r) # {}

\* C16: when the agent of a start or continue request cannot be launched (no
\* executable, or spawn fails), then with that request alone and everything at
\* rest: the request was answered 2xx, the event log has an app/error line, the
\* conclusion is the '# Error' document, the stored status is error, and
\* codex_run_finished went out with success false and exit code 1.
C16_LaunchFailureReported ==
    \A q \in Req :
        (/\ Quiescent
         /\ hist.launch[q] # ""
         /\ \A p \in Req \ {q} : req[p].kind = "none"
         /\ dir)
            => /\ req[q].code = 200
               /\ \E i \in 1..Len(events) : events[i].m = "app/error"
               /\ conclusion.kind = "error"
               /\ meta.status = "error"
               /\ \E i \in FinishedBy(q) : ~bus[i].success /\ bus[i].exit_code = 1

\* The executable was not found: the request was answered 500, no runner was
\* started, nothing was published, and the session is left with status running.
C16_MissingExecutableIs500 ==
    \E q \in Req :
        /\ Quiescent
        /\ hist.launch[q] = "no executable"
        /\ req[q].code = 500
        /\ run[q].pc = "none"
        /\ FinishedBy(q) = {}
        /\ dir /\ meta.status = "running" /\ conclusion.kind # "error"

\* C17: a start or continue request answered 400 (blank prompt, malformed
\* session id) or 409 is answered in its first step, and that step leaves the
\* session store, the event log, the run-handle table and the bus as they were.
C17_RejectedChangesNothing ==
    [][\A q \in Req :
          (/\ req[q].kind \in {"start", "continue"}
           /\ req[q].pc # "done" /\ req'[q].pc = "done"
           /\ req'[q].code \in {400, 409})
              => /\ req[q].pc \in {"s_check", "c_check"}
                 /\ UNCHANGED <<dir, gen, meta, events, stderr_log, conclusion, runs, run,
                                bus>>]_vars

\* A start was refused with 409 and a continue with 400 (or the reverse), and
\* the session is as it was stored: status done, no handle, nothing published.
C17_BothRejected ==
    /\ \E q \in Req : req[q].kind \in {"start", "continue"} /\ req[q].pc = "done"
                      /\ req[q].code = 409
    /\ \E q \in Req : req[q].kind \in {"start", "continue"} /\ req[q].pc = "done"
                      /\ req[q].code = 400
    /\ dir /\ meta = StoredMeta("done") /\ runs = NoHandle /\ bus = <<>> /\ events = <<>>

\* 1946-1956: the codex_event messages that runner r published for lines of
\* its child's stdout.
StdoutBy(r) ==
    {i \in 1..Len(bus) : bus[i].ev = "codex_event" /\ bus[i].src = "runner"
                         /\ bus[i].stream = "stdout" /\ bus[i].by = r}

\* C18: a notification whose append to the event log failed is published as
\* codex_event all the same: once the runner is past the publish step, it has
\* published one codex_event for every notification it appended and for every
\* one whose append failed.
C18_PublishedDespiteAppendFailure ==
    \A r \in Req :
        run[r].pc # "emit"
            => Cardinality(StdoutBy(r)) = Len(hist.appended[r]) + Len(hist.lost[r])

\* The append of a notification failed, the turn went on to its end, and the
\* notification was never published.
C18_LostNotificationUnpublished ==
    \E r \in Req :
        /\ hist.lost[r] # <<>>
        /\ run[r].pc = "done" /\ FinishedBy(r) # {}
        /\ Cardinality(StdoutBy(r)) = Len(hist.appended[r])

\* Every codex_run_finished on the bus, whoever published it.
AllFinished == {i \in 1..Len(bus) : bus[i].ev = "codex_run_finished"}

\* 1194-1214 / 1354-1374: the turns that were accepted, each with its runner.
Accepted == {r \in Req : run[r].pc # "none"}

\* C19: every accepted turn ends with the run handle removed and exactly one
\* codex_run_finished, however it ends: with everything at rest no handle is
\* left and the bus carries one codex_run_finished per accepted turn.
C19_OneFinishedPerTurn ==
    Quiescent => /\ runs = NoHandle
                 /\ Cardinality(AllFinished) = Cardinality(Accepted)

\* One turn was accepted and has ended, a stop that found its handle has
\* returned, and two codex_run_finished are on the bus.
C19_TwoFinishedForOneTurn ==
    /\ Quiescent
    /\ Cardinality(Accepted) = 1
    /\ Cardinality(AllFinished) = 2
    /\ \E q \in Req : req[q].kind = "stop" /\ req[q].pc = "done" /\ req[q].code = 204

\* The messages of the bus that the connection has delivered as live ones.
LiveOut == {i \in 1..Len(view.conn.out) : view.conn.out[i].kind = "live"}

\* C20: publishing never blocks the runner: a runner that has reached one of
\* its publish steps can take it whatever any subscriber has read. A subscriber
\* that lags by more than the capacity of the channel loses the oldest
\* undelivered messages and goes on with the oldest one still kept; one that
\* lags by no more gets the next message.
C20_PublishNeverBlocks ==
    /\ [](\A r \in Req :
             /\ run[r].pc = "emit" => ENABLED emit(r)
             /\ run[r].pc = "dm_bc" => ENABLED drain_metrics(r)
             /\ run[r].pc = "fm_bc" => ENABLED final_metrics(r)
             /\ run[r].pc \in {"finished", "ff_bc"} => ENABLED broadcast_run_finished(r))
    /\ [][(view.conn.pc = "open" /\ view'.conn.pc = "open"
           /\ view'.conn.rx # view.conn.rx)
             => IF Len(bus) - view.conn.rx > BusCapacity
                THEN /\ view'.conn.rx = Len(bus) - BusCapacity
                     /\ view'.conn.out = view.conn.out
                ELSE /\ view'.conn.rx = view.conn.rx + 1
                     /\ view'.conn.out = Append(view.conn.out,
                                                [kind |-> "live", evt |-> bus[view.conn.rx + 1]])
       ]_vars

\* The runner has published everything and finished while a connection was
\* open, and the connection has lost a message: it delivered an earlier and a
\* later message of the bus live, but not one between them.
C20_SubscriberLostMessage ==
    /\ view.conn.pc = "open"
    /\ \E r \in Req : run[r].pc = "done"
    /\ \E a, b, c \in 1..Len(bus) :
          /\ a < b /\ b < c
          /\ \E i \in LiveOut : view.conn.out[i].evt = bus[a]
          /\ \E i \in LiveOut : view.conn.out[i].evt = bus[c]
          /\ ~\E i \in LiveOut : view.conn.out[i].evt = bus[b]

\* C21: once the cancel of a turn has fired, its runner takes no further line
\* from the child's stdout: the next thing a runner waiting for a line does is
\* to take the cancel, and no notification is received in between.
C21_CancelPreemptsReading ==
    [][\A r \in Req :
          (/\ run[r].rx = "fired" /\ run[r].pc = "read"
           /\ \/ run'[r].pc # "read"
              \/ hist'.received[r] # hist.received[r])
              => /\ hist'.ended[r] = "cancelled"
                 /\ hist'.received[r] = hist.received[r]]_vars

\* 2110-2112 / 2626-2627: the capture state after the lines of s were fed to
\* capture_agent_message_text one after the other.
RECURSIVE Captured(_)
Captured(s) ==
    IF s = <<>> THEN NoRun
    ELSE capture_agent_message_text(s[Len(s)], Captured(SubSeq(s, 1, Len(s) - 1)))

\* The codex_event messages of runner r for its child's stdout are on the bus
\* in the order of their lines.
StdoutInOrder(r) ==
    \A i, j \in StdoutBy(r) : i < j => bus[i].n < bus[j].n

\* C22: when a runner that awaits a response is ready for the next line, every
\* line with a method that it received has been persisted and published (but
\* for the three suppressed methods) and fed to the agent-text capture, in the
\* order of arrival; a line with no method and another id changes nothing and
\* the runner goes on waiting.
C22_WaitProcessesNotifications ==
    /\ [](\A r \in Req :
             (run[r].phase \in WaitPhases /\ run[r].pc = "read") =>
                LET kept == SelectSeq(hist.received[r], IsKept)
                IN /\ Len(hist.appended[r]) + Len(hist.lost[r]) = Len(kept)
                   /\ hist.lost[r] = <<>> =>
                         \A i \in 1..Len(kept) : hist.appended[r][i].n = kept[i]
                   /\ Cardinality(StdoutBy(r)) = Len(kept)
                   /\ StdoutInOrder(r)
                   /\ run[r].agent_text = Captured(hist.received[r]).agent_text)
    /\ [][\A r \in Req :
             (read_skipped(r) /\ run[r].phase \in WaitPhases)
                => UNCHANGED <<run, bus, events, meta, hist>>]_vars

\* A runner awaiting the answer to turn/start has received a line with a
\* method, failed to append it, and is waiting for the next line with nothing
\* published for it.
C22_UnpublishedWhileWaiting ==
    \E r \in Req :
        /\ run[r].phase \in WaitPhases /\ run[r].pc = "read"
        /\ hist.lost[r] # <<>>
        /\ Cardinality(StdoutBy(r)) < Len(SelectSeq(hist.received[r], IsKept))

\* 2324-2536: the requests runner r wrote before any turn/interrupt.
Setup(r) ==
    LET NotInterrupt(m) == m.method # "turn/interrupt"
    IN SelectSeq(hist.sent[r], NotInterrupt)

\* C23: the requests of a turn carry the ids 1, 2, 3, ... in the order they
\* are written; initialize is first; thread/resume is second, names the stored
\* thread id, and is written exactly when the session carries one; thread/start
\* is written only with no thread id in hand, second when none is stored and
\* third after a resume that failed, never after a resume that returned a
\* result; turn/start is last, written once, with a thread id. A turn that got
\* no thread id is finalized as an error with no turn/start.
C23_RequestOrder ==
    /\ [](\A r \in Req :
             LET s == hist.sent[r]
                 p == Setup(r)
             IN /\ \A i \in 1..Len(s) : s[i].id = i
                /\ \A i \in 1..Len(p) :
                      /\ p[i].method = "initialize" <=> i = 1
                      /\ p[i].method = "thread/resume" =>
                            /\ i = 2 /\ run[r].thread_id # ""
                            /\ p[i].thread = run[r].thread_id
                      /\ (i = 2 /\ run[r].thread_id # "") => p[i].method = "thread/resume"
                      /\ p[i].method = "thread/start" =>
                            \/ i = 2 /\ run[r].thread_id = ""
                            \/ i = 3 /\ p[2].method = "thread/resume"
                      /\ p[i].method = "turn/start" =>
                            /\ i = Len(p) /\ i \in {3, 4}
                            /\ p[i].thread # "" /\ p[i].thread = run[r].eff
                /\ (run[r].pc = "done" /\ run[r].eff = "") =>
                      /\ ~TurnStartSent(r)
                      /\ \A i \in FinishedBy(r) : ~bus[i].success)
    /\ [][\A r \in Req :
             /\ (Len(hist'.sent[r]) > Len(hist.sent[r])
                 /\ hist'.sent[r][Len(hist'.sent[r])].method = "thread/start")
                   => run[r].eff = ""
             /\ \A res \in Responses("resume") :
                   (run[r].phase = "resume" /\ res.ok /\ read_response(r, res))
                      => run'[r].pc = "tid_read"]_vars

\* A turn on a stored thread id whose resume failed: initialize, thread/resume,
\* thread/start and turn/start were written, in this order.
C23_ResumeFailedThenStart ==
    \E r \in Req :
        /\ Len(Setup(r)) = 4
        /\ Setup(r)[2].method = "thread/resume"
        /\ Setup(r)[3].method = "thread/start"
        /\ Setup(r)[4].method = "turn/start"

\* 2023-2036: a token-usage update that yields a snapshot (non-zero window).
IsValidUsage(n) == extract_token_usage_snapshot(n) # <<>>

\* The valid token-usage updates runner r received, in the order of receipt.
ValidUsage(r) == SelectSeq(hist.received[r], IsValidUsage)

\* 2671-2685: the records of the usage ledger that runner r appended.
LedgerOf(r) ==
    LET ByR(u) == u.by = r
    IN SelectSeq(usage, ByR)

\* C24: a turn appends at most one record to the usage ledger, at its
\* finalization; a finished turn has appended one exactly when it received at
\* least one valid thread/tokenUsage/updated; the record carries the window and
\* the token count of the last of them, cancelled or not.
C24_UsageRecordIffObserved ==
    \A r \in Req :
        /\ Len(LedgerOf(r)) <= 1
        /\ LedgerOf(r) # <<>> =>
              /\ PastDrain(r)
              /\ ValidUsage(r) # <<>>
              /\ LedgerOf(r)[1].window = ValidUsage(r)[Len(ValidUsage(r))].w
              /\ LedgerOf(r)[1].total = ValidUsage(r)[Len(ValidUsage(r))].t
        /\ run[r].pc = "done" => (LedgerOf(r) # <<>> <=> ValidUsage(r) # <<>>)

\* A turn has completed after its child sent a valid token-usage update before
\* the answer to turn/start, and the ledger has no record of the turn.
C24_UsageBeforeDrainUnrecorded ==
    \E r \in Req :
        /\ run[r].pc = "done" /\ hist.ended[r] = "completed"
        /\ ValidUsage(r) # <<>>
        /\ LedgerOf(r) = <<>>

\* C25: whenever the runner of the only request has processed the lines it
\* received and is ready for the next one (or has left the drain), the context
\* triple of the stored metadata is the snapshot of the last valid
\* thread/tokenUsage/updated it received, with or without a codex_metrics for it.
C25_ContextFollowsUsage ==
    \A r \in Req :
        (/\ run[r].pc \in {"read", "fin"}
         /\ ValidUsage(r) # <<>>
         /\ \A p \in Req \ {r} : req[p].kind = "none"
         /\ dir /\ gen = 1 /\ meta # NoMeta)
            => meta.ctx = extract_token_usage_snapshot(ValidUsage(r)[Len(ValidUsage(r))])

\* The runner is draining and ready for the next line; it holds the snapshot
\* of the latest update, while the metadata still shows the snapshot of an
\* earlier one, for which codex_metrics was emitted.
C25_GatedUpdateNotStored ==
    \E r \in Req :
        /\ run[r].phase = "drain" /\ run[r].pc = "read"
        /\ \A p \in Req \ {r} : req[p].kind = "none"
        /\ dir /\ gen = 1
        /\ run[r].snapshot # <<>> /\ meta.ctx # <<>>
        /\ meta.ctx # run[r].snapshot
        /\ run[r].last_metrics_emitted_pct = meta.ctx[3]

\* The places of the session's id in the order list of the thread titles.
InOrder(a) == {i \in 1..Len(a.order) : a.order[i] = SessionId}

\* C26: a rename that finds local metadata sets the title there and leaves the
\* thread titles alone; one that finds none and whose id is in neither store
\* is answered 404 and writes nothing; one that writes the thread titles is
\* answered 204, stores its title for the id and puts the id at the front of
\* the order list only if the list lacks it, and the id is in the native
\* archive then. The order list never holds the id twice.
C26_RenameLaw ==
    /\ [](Cardinality(InOrder(archive)) <= 1)
    /\ [][\A q \in Req :
             /\ (req[q].pc = "n_write" /\ req'[q].pc = "done" /\ req'[q].code = 204)
                   => /\ meta'.title = TitleOf(q)
                      /\ archive' = archive
             /\ (req[q].pc = "n_read" /\ req'[q].pc # "n_read"
                 /\ meta = NoMeta /\ archive.paths = <<>>)
                   => /\ req'[q].pc = "done" /\ req'[q].code = 404
                      /\ archive' = archive /\ meta' = meta
             /\ (req[q].pc = "n_title" /\ req'[q].pc = "done")
                   => /\ req'[q].code = 204
                      /\ meta' = meta
                      /\ archive'.title = TitleOf(q)
                      /\ archive'.order = IF InOrder(archive) # {} THEN archive.order
                                          ELSE <<SessionId>> \o archive.order
                      /\ Cardinality(InOrder(archive')) = 1]_vars

\* The session was deleted (204, nothing of it is left in either store), and
\* a rename that came afterwards was answered 204 and left its title and the
\* id in the thread titles.
C26_RenamedAfterDelete ==
    /\ DeleteReturned
    /\ ~dir /\ archive.paths = <<>>
    /\ \E q \in Req : /\ req[q].kind = "rename" /\ req[q].pc = "done" /\ req[q].code = 204
                      /\ archive.title = TitleOf(q)
    /\ InOrder(archive) # {}
    /\ native_cache.paths # <<>>

\* The one request of the behaviour is a continue on an id that has no local
\* metadata and one thread in the native archive.
NativeOnly(q) ==
    /\ budget.store \in {"native", "exec"}
    /\ req[q].kind = "continue"
    /\ budget.plan = <<>> /\ \A p \in Req \ {q} : req[p].kind = "none"

\* The local session continue_session made of the native thread, and the
\* requests of its turn: the title, created-at and cwd of the archive (the cwd
\* of the request first), thread/resume second with the id of the native
\* thread, no thread/start before it.
ContinuedFromArchive(q) ==
    /\ req[q].code = 200
    /\ meta.title = NativeTitle(archive)
    /\ meta.created_at = archive.paths[1].mtime
    /\ meta.cwd = (IF budget.cwd # "" THEN budget.cwd ELSE NativeCwd)
    /\ Len(Setup(q)) >= 2 =>
          /\ Setup(q)[2].method = "thread/resume"
          /\ Setup(q)[2].thread = SessionId
          /\ Setup(q)[1].method # "thread/start"

C28_LastUsedNotBeforeCreated ==
    /\ meta # NoMeta => meta.last_used_at >= meta.created_at
    /\ view.list.entry # NoMeta =>
          view.list.entry.last_used_at >= view.list.entry.created_at

\* A listing of a native thread whose first rollout was written to after its
\* last one: the entry was last used before it was created.
C28_ListedUsedBeforeCreated ==
    /\ meta = NoMeta /\ view.list.pc = "done"
    /\ view.list.entry # NoMeta
    /\ view.list.entry.created_at = archive.paths[1].mtime
    /\ view.list.entry.last_used_at = archive.paths[Len(archive.paths)].mtime
    /\ view.list.entry.last_used_at < view.list.entry.created_at

\* The value of field k of the first JSON object's payload, "" for none.
PayloadField(h, k) ==
    IF \E i \in 1..Len(h.payload) : h.payload[i].key = k
    THEN h.payload[CHOOSE i \in 1..Len(h.payload) : h.payload[i].key = k].val
    ELSE ""

\* In the first JSON object, base_instructions is written before each of the
\* fields cwd, originator and source that the object has, every one of them
\* once and as a string, and originator is one of them.
InstructionsFirst(h) ==
    /\ h.ty = "session_meta"
    /\ \E b \in 1..Len(h.payload) :
          /\ h.payload[b].key = "base_instructions"
          /\ \A i \in 1..Len(h.payload) :
                h.payload[i].key \in {"cwd", "originator", "source"} =>
                    /\ b < i /\ h.payload[i].val # Structured
                    /\ \A j \in 1..Len(h.payload) :
                          h.payload[j].key = h.payload[i].key => j = i
    /\ PayloadField(h, "originator") # ""

\* C29: once the metadata of a rollout is extracted, (a) if base_instructions
\* precedes the cwd, originator and source of its session_meta line, the result
\* is these three values; (b) whenever the scan of the prefix cut at
\* base_instructions finds no originator and the first JSON object parses with
\* type session_meta, each value is the one the scan found, else the parsed
\* one; (c) in every other case the result is what the scan found.
C29_TripletOfSessionMeta ==
    native_cache.built_at_ms > 0 /\ archive.paths # <<>> /\ "head" \in DOMAIN archive.paths[1] =>
        LET f == archive.paths[1]
            h == f.head
            scan(k) == extract_session_meta_field_from_rollout(h, k)
            parsed == RolloutMetaLine(h)
            got == [cwd |-> f.cwd, originator |-> f.originator, source |-> f.source]
        IN /\ InstructionsFirst(h) =>
                 \A k \in {"cwd", "originator", "source"} : got[k] = PayloadField(h, k)
           /\ (scan("originator") = "" /\ parsed.ok /\ parsed.ty = "session_meta") =>
                 \A k \in {"cwd", "originator", "source"} :
                     got[k] = IF scan(k) # "" THEN scan(k) ELSE parsed.payload[k]
           /\ ~(scan("originator") = "" /\ parsed.ok /\ parsed.ty = "session_meta") =>
                 \A k \in {"cwd", "originator", "source"} : got[k] = scan(k)

\* The rollout of the repository's test: base_instructions, then cwd,
\* originator codex_exec and source exec, all of which were extracted.
C29_FallbackFoundExec ==
    /\ native_cache.built_at_ms > 0 /\ archive.paths # <<>>
    /\ "head" \in DOMAIN archive.paths[1]
    /\ InstructionsFirst(archive.paths[1].head)
    /\ archive.paths[1].head.payload[1].key = "base_instructions"
    /\ archive.paths[1].cwd = "/w"
    /\ archive.paths[1].originator = "codex_exec"
    /\ archive.paths[1].source = "exec"

\* 1968-1981 and 1984-2002: the lines the capture acts on, which are the deltas
\* that name an item and the completed agent messages that carry a text.
IsAgentText(n) ==
    \/ n.m = "item/agentMessage/delta" /\ n.item # ""
    \/ n.m = "item/completed" /\ n.st = "agentMessage" /\ n.text # NoText

\* What the claim makes of the lines s: the texts from the last line on that
\* starts the buffer over, which is a completed agent message, or a delta of
\* another item than the line before it (or the first line of all).
TextAfterLastReset(s) ==
    LET resets == {i \in 1..Len(s) : \/ s[i].m = "item/completed"
                                     \/ i = 1
                                     \/ s[i - 1].item # s[i].item}
        from == CHOOSE i \in resets : \A j \in resets : j <= i
    IN IF s = <<>> THEN <<>>
       ELSE [k \in 1..(Len(s) - from + 1) |-> s[from + k - 1].text]

\* C30: whenever a runner has processed every line it received, its captured
\* agent text is the text of the most recent completed agent message followed
\* by the deltas received after it for the same item, a delta of another item
\* than the captured one starting the buffer over; and the finalization writes
\* the conclusion file, with the buffer, exactly when the buffer is not blank.
C30_CapturedAgentText ==
    /\ [](\A r \in Req :
             (run[r].pc \in {"read", "concl"} /\ hist.lost[r] = <<>>) =>
                 run[r].agent_text
                     = TextAfterLastReset(SelectSeq(hist.received[r], IsAgentText)))
    /\ [][\A r \in Req :
             write_conclusion(r) =>
                 IF IsBlank(run[r].agent_text) THEN conclusion' = conclusion
                 ELSE conclusion' = [kind |-> "agent", text |-> run[r].agent_text]]_vars

\* A completed agent message, a delta of the same item and a delta of another
\* item were received in this order, and the conclusion file holds the text of
\* the last delta alone.
C30_ConclusionOfLastItem ==
    \E r \in Req :
        /\ run[r].pc = "done"
        /\ LET s == SelectSeq(hist.received[r], IsAgentText)
           IN /\ Len(s) = 3
              /\ s[1].m = "item/completed" /\ s[1].item = "m1"
              /\ s[2].m = "item/agentMessage/delta" /\ s[2].item = "m1"
              /\ s[3].m = "item/agentMessage/delta" /\ s[3].item = "m2"
        /\ conclusion = [kind |-> "agent", text |-> <<"b">>]

\* C31: a runner leaves the read loop of the drain only on a turn/completed
\* that it processed, on its child's stdout closing or on a cancel; a line with
\* no method leaves it reading in the drain with nothing else changed.
C31_DrainEndsOnlyOnCompletion ==
    /\ [][\A r \in Req :
             (run[r].phase = "drain" /\ run[r].pc # "fin" /\ run'[r].pc = "fin")
                 => hist'.ended[r] \in Ends \cup {"closed", "cancelled"}]_vars
    /\ [][\A r \in Req :
             (read_skipped(r) /\ run[r].phase = "drain")
                 => /\ run'[r] = run[r]
                    /\ UNCHANGED <<bus, events, meta, hist>>]_vars

\* A line that is not JSON ended the drain of a turn, and the turn was
\* finalized without any turn/completed.
C31_DrainEndedByBadLine ==
    \E r \in Req :
        /\ run[r].phase = "drain" /\ run[r].pc = "done"
        /\ hist.ended[r] = "bad_json"
        /\ \A i \in 1..Len(hist.received[r]) : hist.received[r][i].m # "turn/completed"
        /\ FinishedBy(r) # {}

\* C32 (first part): the last prompt derived from a rollout is the most recent
\* user message of its tail that is shown, whatever lines follow it.
\* (Second part:) a thread with no such message and no title given by the user
\* is not listed.
C32_LastShownPrompt ==
    (native_cache.built_at_ms > 0 /\ archive.paths # <<>>
     /\ "tail" \in DOMAIN archive.paths[1]) =>
        LET f == archive.paths[1]
        IN /\ f.last_prompt = find_last_prompt_skipping(f.tail)
           /\ (view.list.pc = "done" /\ archive.title = ""
               /\ find_last_prompt_skipping(f.tail) = "")
                  => view.list.entry = NoMeta

\* A shown user message followed by a line that is not JSON: no last prompt
\* was derived and the listing left the thread out.
C32_PromptLostToLaterLine ==
    /\ native_cache.built_at_ms > 0 /\ archive.paths # <<>>
    /\ "tail" \in DOMAIN archive.paths[1]
    /\ archive.paths[1].tail = <<TailLine("event_msg", "p"), TailLine("not_json", "")>>
    /\ archive.paths[1].last_prompt = ""
    /\ archive.title = "" /\ ~IsExec(archive.paths[1])
    /\ view.list.pc = "done" /\ view.list.entry = NoMeta

\* C33: as long as the session directory stays, the stderr log only grows at
\* its end, and only by a line of a child's stderr that the reader task of a
\* runner appends.
C33_StderrLogAppendOnly ==
    [][(dir /\ dir' /\ gen' = gen /\ stderr_log' # stderr_log)
          => /\ Len(stderr_log') = Len(stderr_log) + 1
             /\ SubSeq(stderr_log', 1, Len(stderr_log)) = stderr_log
             /\ \E r \in Req : stderr_line(r)]_vars

\* A turn whose child wrote to stderr failed before the drain: the line was
\* published, and the stderr log holds the error text alone.
C33_StderrLineOverwritten ==
    \E r \in Req :
        /\ run[r].pc = "done" /\ run[r].phase # "drain"
        /\ \E i \in 1..Len(bus) : bus[i].stream = "stderr" /\ bus[i].by = r
        /\ gen = 1 /\ dir
        /\ stderr_log = <<[by |-> r, n |-> 0]>>

\* The percentage of the window that is left, as the claim has it.
PctLeft(window, total) ==
    LET x == ((Max(0, window - total) * 100) + (window \div 2)) \div window
    IN IF x > 100 THEN 100 ELSE IF x < 0 THEN 0 ELSE x

\* The last token-usage update with a window among the lines s, NoMsg for none.
LastWithWindow(s) ==
    LET ok == {i \in 1..Len(s) : s[i].m = "thread/tokenUsage/updated" /\ s[i].w > 0}
    IN IF ok = {} THEN NoMsg ELSE s[CHOOSE i \in ok : \A j \in ok : j <= i]

\* C34: the snapshot of a runner in the drain is that of the last token-usage
\* update with a window > 0 it received (an update with window 0 yields none),
\* with percent-left = floor((max(0, window - total) * 100 + floor(window / 2))
\* / window) limited to 0..100: 100 for total 0, 0 for total >= window, 60 for
\* 400 of 1000; and an update of the same window with no fewer tokens never
\* raises the percentage.
C34_PercentLeft ==
    /\ [](\A r \in Req :
             (run[r].phase = "drain" /\ run[r].pc = "read") =>
                 LET n == LastWithWindow(hist.received[r])
                     snap == run[r].snapshot
                 IN IF n = NoMsg THEN snap = <<>>
                    ELSE /\ snap = <<n.w, n.t, PctLeft(n.w, n.t)>>
                         /\ snap[3] \in 0..100
                         /\ n.t = 0 => snap[3] = 100
                         /\ n.t >= n.w => snap[3] = 0
                         /\ (n.w = 1000 /\ n.t = 400) => snap[3] = 60)
    /\ [][\A r \in Req :
             (/\ run[r].snapshot # <<>> /\ run'[r].snapshot # <<>>
              /\ run'[r].snapshot[1] = run[r].snapshot[1]
              /\ run'[r].snapshot[2] >= run[r].snapshot[2])
                 => run'[r].snapshot[3] <= run[r].snapshot[3]]_vars

\* After an update of 1 token of a window of 3, which leaves 67 percent, one
\* with window 0 was received and the snapshot is still that of the first.
C34_RoundedAndKept ==
    \E r \in Req :
        /\ run[r].phase = "drain" /\ run[r].pc = "read"
        /\ Len(hist.received[r]) = 3
        /\ hist.received[r][2].w = 3 /\ hist.received[r][2].t = 1
        /\ hist.received[r][3].w = 0
        /\ run[r].snapshot = <<3, 1, 67>>

\* ------------------------------------------------------------------- C35
\* The turn that holds the run handle of the session id while runner r
\* finalizes: a turn other than r's own, accepted after it.
LaterTurn(r) == IF runs.owner \notin {0, r} THEN runs.owner ELSE 0

\* C35: a runner's finalization affects only its own turn: the step that
\* removes the run handle never removes the handle of a later turn nor drops
\* its cancel sender, and the status written at the end never replaces the
\* running status of a later turn that holds the handle.
C35_FinalizationOwnTurn ==
    [][\A r \in Req :
          /\ (run[r].pc \in {"remove", "ff_remove"} /\ run'[r].pc # run[r].pc)
                => /\ LaterTurn(r) = 0
                   /\ \A p \in Req \ {r} : run'[p].rx = run[p].rx
          /\ (run[r].pc \in {"st_write", "ff_mwrite"} /\ run'[r].pc # run[r].pc
                /\ LaterTurn(r) # 0)
                => meta'.status = meta.status]_vars

\* The first turn is over and has published its codex_run_finished; the second,
\* accepted while the first was running, is still live but has no handle any
\* more and its cancel receiver is closed, although no stop or delete request
\* was ever made.
C35_LaterTurnLostHandle ==
    \E r, p \in Req :
        /\ r # p
        /\ run[r].pc = "done"
        /\ Live(p) /\ run[p].rx = "closed"
        /\ runs.owner = 0
        /\ \A q \in Req : req[q].kind \notin {"stop", "delete"}

\* ------------------------------------------------------------------- C36
\* What the connection was sent live, and whether that is the end of the bus
\* without a gap: the receiver never lagged and has read everything.
LiveSent == SelectSeq(view.conn.out, LAMBDA o : o.kind = "live")

CaughtUp ==
    /\ view.conn.pc = "open"
    /\ view.conn.next > Len(view.conn.backlog)
    /\ view.conn.rx = Len(bus)
    /\ Len(LiveSent) <= Len(bus)
    /\ \A i \in 1..Len(LiveSent) : LiveSent[i].evt = bus[Len(bus) - Len(LiveSent) + i]

\* Line i of the event log was written by a runner and has been published.
Published(i) ==
    /\ events[i].src = "runner"
    /\ \E j \in 1..Len(bus) :
          /\ bus[j].ev = "codex_event" /\ bus[j].src = "runner"
          /\ bus[j].by = events[i].by /\ bus[j].n = events[i].n

\* The connection was sent line i of the event log, in its backlog or live.
Delivered(i) ==
    \E k \in 1..Len(view.conn.out) :
        LET o == view.conn.out[k]
        IN \/ o.kind = "backlog" /\ o.evt.src = "events" /\ o.evt.n = i
           \/ /\ o.kind = "live" /\ o.evt.ev = "codex_event" /\ o.evt.src = "runner"
              /\ o.evt.by = events[i].by /\ o.evt.n = events[i].n

\* The connection read its backlog after the turn's prompt was appended to the
\* event log, which is empty between turns here: it connected during the turn.
ConnectedInTurn ==
    \E k \in 1..Len(view.conn.backlog) : view.conn.backlog[k].evt.src = "events"

\* C36: a client that connects with the default tail while a turn is running
\* misses no persisted event: once it has read its backlog and, without ever
\* lagging, everything published since it subscribed, it has been sent every
\* notification that was appended to the event log and published.
C36_NoPersistedEventMissed ==
    (CaughtUp /\ view.conn.tail = -1 /\ ConnectedInTurn)
        => \A i \in 1..Len(events) : Published(i) => Delivered(i)

\* The turn is over, the client has its whole backlog and every message
\* published since it subscribed, among them a live one, and a notification of
\* the event log that was published before is not among what it was sent.
C36_EventBetweenReadAndSubscribe ==
    /\ CaughtUp /\ view.conn.tail = -1 /\ ConnectedInTurn
    /\ Len(LiveSent) > 0
    /\ \E r \in Req : run[r].pc = "done"
    /\ \E i \in 1..Len(events) : Published(i) /\ ~Delivered(i)

\* ------------------------------------------------------------------- C37
\* Turn r is the only turn the session was asked for, its runner has published
\* codex_run_finished, and the session's directory is still there.
OnlyTurnFinished(r) ==
    /\ FinishedBy(r) # {}
    /\ \A p \in Req \ {r} : req[p].kind \notin {"start", "continue", "delete"}
    /\ dir /\ meta # NoMeta

\* C37: metadata updates are not lost: once a turn's runner has published
\* codex_run_finished, the stored status is done or error, and it stays so as
\* long as no new turn is accepted, whatever touch and rename requests
\* interleave with the runner's writes of meta.json.
C37_FinalStatusKept ==
    \A r \in Req : OnlyTurnFinished(r) => meta.status \in {"done", "error"}

\* The only turn has completed and published codex_run_finished, every request
\* has returned, one of them a touch or rename answered with success, and the
\* stored status is running.
C37_StatusRevertedToRunning ==
    \E r \in Req :
        /\ OnlyTurnFinished(r)
        /\ run[r].pc = "done" /\ run[r].success
        /\ Quiescent
        /\ \E q \in Req : req[q].kind \in {"touch", "rename"} /\ req[q].code \in {200, 204}
        /\ meta.status = "running"

\* ------------------------------------------------------------------- C38
\* C38: when a runner publishes codex_run_finished for its turn, the turn's run
\* handle is no longer in the table, and the stored status, unless another
\* turn was asked for, a touch or rename rewrites the metadata or the
\* metadata is gone, is done or error: a continue sent in reaction is not
\* rejected because of that turn.
C38_FinishedAfterCleanup ==
    [][\A r \in Req :
          (run[r].pc \in {"finished", "ff_bc"} /\ run'[r].pc = "done")
             => /\ Len(bus') = Len(bus) + 1
                /\ bus'[Len(bus')].ev = "codex_run_finished"
                /\ runs.owner # r
                /\ ((\A p \in Req \ {r} :
                         req[p].kind \notin {"start", "continue", "touch", "rename"})
                      /\ dir /\ meta # NoMeta)
                     => meta.status \in {"done", "error"}]_vars

\* A turn that completed in its drain has just been reported: the last message
\* of the bus is its runner's codex_run_finished, with no handle in the table
\* and status done in the store.
C38_FinishedWithHandleGone ==
    \E r \in Req :
        /\ run[r].pc = "done" /\ run[r].phase = "drain" /\ run[r].success
        /\ Len(bus) > 0 /\ Len(bus) \in FinishedBy(r)
        /\ runs.owner = 0
        /\ meta.status = "done"

\* ------------------------------------------------------------------- C39
\* C39: a continue that is rejected with 404 leaves the store as it was: while
\* no other request has created the session, no local directory exists
\* afterwards, and a start with that session id is never answered 409.
C39_Rejected404LeavesNoDirectory ==
    \A q \in Req :
        (req[q].kind = "continue" /\ req[q].pc = "done" /\ req[q].code = 404)
           => /\ (\A p \in Req \ {q} : req[p].kind = "none") => ~dir
              /\ \A p \in Req : (req[p].kind = "start" /\ req[p].pc = "done")
                                   => req[p].code # 409

\* A continue of an id that is in neither store was answered 404, and the
\* start that followed with the same id was answered 409: the directory is
\* there, without metadata, and no turn ever ran.
C39_StartRejectedAfter404 ==
    \E q, p \in Req :
        /\ req[q].kind = "continue" /\ req[q].pc = "done" /\ req[q].code = 404
        /\ req[p].kind = "start" /\ req[p].pc = "done" /\ req[p].code = 409
        /\ dir /\ meta = NoMeta
        /\ \A r \in Req : run[r].pc = "none"

\* ------------------------------------------------------------------- C40
\* C40: a turn that ends by cancellation changes the conclusion file only if
\* agent text was captured in that turn, and then to that text; otherwise the
\* conclusion is left as it was, whether the cancel fired before or during the
\* drain.
C40_CancelKeepsConclusion ==
    [][\A r \in Req :
          (hist.ended[r] = "cancelled" /\ run'[r] # run[r] /\ conclusion' # conclusion)
             => /\ ~IsBlank(run[r].agent_text)
                /\ conclusion' = [kind |-> "agent", text |-> run[r].agent_text]]_vars

\* A turn was cancelled while its runner waited for the answer to a request,
\* before the drain; it captured no agent text, it is over, and the conclusion
\* file holds an error text.
C40_CancelledBeforeDrainWroteError ==
    \E r \in Req :
        /\ hist.ended[r] = "cancelled"
        /\ run[r].phase \in WaitPhases
        /\ run[r].pc = "done"
        /\ IsBlank(run[r].agent_text)
        /\ conclusion.kind = "error"

====
